---- MODULE Spec2Model ----
(***************************************************************************)
(* A model of localWebSearch: the multi-engine search dispatcher with its  *)
(* process-wide CAPTCHA locks (webSeach/search_engines.py, utils.py), the  *)
(* crawl stage (webSeach/page_crawler.py, tools.py) and the browser-state  *)
(* cache (webSeach/state_cache.py).                                        *)
(*                                                                         *)
(* The three subsystems are checked under three specifications that share  *)
(* one set of variables: SpecSearch, SpecCrawl and SpecCache.  Each one    *)
(* leaves the variables of the other two at their initial values.          *)
(*                                                                         *)
(* asyncio runs one coroutine at a time; a coroutine is interrupted only   *)
(* at an await that suspends.  One action is one such uninterrupted step.  *)
(***************************************************************************)
EXTENDS Integers, Sequences, FiniteSets, TLC

VARIABLES
    \* ---- search stage (search_engines.py) ----
    invocation,     \* number of multi_search_with_context calls begun
    dispatcher,     \* "idle" | "running" | "returned" | "raised" | "config_error"
    chosen,         \* the names the call requested, lowercased; {} stands for None
    engine_list,    \* the adapters selected by the running call (a set of names)
    concurrency_tabs, \* the call's tab-concurrency cap
    top_k_each,     \* the call's per-engine hit cap
    state_manager,  \* TRUE iff a StateCacheManager was passed to the call
    pc,             \* pc[e]: position of engine e's fetch_engine task
    sem,            \* value of the call's asyncio.Semaphore
    captcha_pause_lock, \* utils.captcha_pause_lock: its holder, or NoOwner
    captcha_lock,   \* utils.captcha_lock: its holder, or NoOwner
    open_tabs,      \* pages opened by fetch_engine and not closed
    chunks,         \* chunks[e]: the hit list fetch_engine returned for e
    deduped,        \* the list multi_search_with_context returned
    saved,          \* engines whose state was saved during CAPTCHA handling
    is_captcha,     \* is_captcha[e]: the local is_captcha of e's fetch_engine task
    resolution,     \* resolution[e]: how the wait_for_captcha_resolution of e's
                    \* running task ended: "none" (not called, or not ended, or
                    \* the task has returned) | "resolved" | "timeout"
    \* ---- crawl stage (page_crawler.py, tools.py) ----
    crawl_stage,    \* "idle" | "crawling" | "gathered"
    results,        \* the search hits handed to the crawl stage
    crawl_concurrency, \* the crawl-concurrency cap of the call
    crawl_sem,      \* value of asyncio.Semaphore(crawl_concurrency)
    cpc,            \* cpc[i]: position of the crawl_page_content task of hit i
    outcome,        \* outcome[i]: what task i is about to return or raise, or did
    crawl_pages,    \* hits whose crawl page is open
    pages,          \* the PageResults _web_search keeps after the gather
    \* ---- state cache (state_cache.py) ----
    now,            \* datetime.now(), in units of the model's clock
    state_files,    \* state_files[e]: the file <e>_state.json of the cache directory
    metadata_file,  \* the file metadata.json
    locks,          \* locks[e]: holder of StateCacheManager._locks[e], or NoOwner
    call,           \* the call of a StateCacheManager method made by the latest
                    \* step, and how it ended; NoCall when that step was no call
    \* ---- aggregation (tools.py 142-152, models.py) ----
    agg_pages,      \* the list "pages" the aggregation of _web_search was given
    good_results,   \* its list good_results
    agg_deduped,    \* its list deduped, the aggregator's output
    agg_round,      \* "none" | "first" | "again": whether the latest aggregation
                    \* ran on crawled pages or on the output of the one before
    \* ---- scoring and ranking (page_crawler.py 194-216, 506-520) ----
    text,           \* the text _score_text was last called on, by its counts
    score,          \* what that call returned, in fortieths of a point
    before,         \* the text and score of the call before, when the latest
                    \* text is an edit of that one
    edit,           \* "none" | "scored" | "noise" | "longer": what the latest text
                    \* is: a new text, or the one before with one more noise
                    \* keyword, or with more characters
    candidates,     \* the list candidates of crawl_page_content
    scored,         \* its list scored, after the sort of line 519
    fallback,       \* the body fallback of lines 499-504: "unset" | "skipped" |
                    \* "tried"
    page_result,    \* what crawl_page_content returned for the page
    main_block,     \* a call of _extract_main_block: the elements the page
                    \* matched and the text returned
    \* ---- CAPTCHA probe and resolution wait (utils.py 153-281) ----
    wait_pc,        \* position of a wait_for_captcha_resolution call: "idle" |
                    \* "check" | "probe" | "settle" | "sleep" | "returned" |
                    \* "timeout" | "raised"
    elapsed,        \* time since the call began, in half seconds
    probed,         \* the latest is_captcha_page call of the wait: the page it
                    \* was made on and how it ended
    \* ---- the engines argument and the order of completion ----
    engines,        \* the engines argument of multi_search_with_context, as the
                    \* caller gave it
    arrived         \* the engines of the call in the order their tasks ended

searchVars == <<invocation, dispatcher, chosen, engine_list, concurrency_tabs, top_k_each,
                state_manager, pc, sem, captcha_pause_lock, captcha_lock,
                open_tabs, chunks, deduped, saved, is_captcha, resolution>>
crawlVars == <<crawl_stage, results, crawl_concurrency, crawl_sem, cpc, outcome, crawl_pages, pages>>
cacheVars == <<now, state_files, metadata_file, locks, call>>
aggVars == <<agg_pages, good_results, agg_deduped, agg_round>>
scoreVars == <<text, score, before, edit, candidates, scored, fallback, page_result, main_block>>
waitVars == <<wait_pc, elapsed, probed>>
dispatchVars == <<engines, arrived>>
otherThanSearch == <<crawlVars, cacheVars, aggVars, scoreVars, waitVars, dispatchVars>>
otherThanCrawl == <<searchVars, cacheVars, aggVars, scoreVars, waitVars, dispatchVars>>
otherThanCache == <<searchVars, crawlVars, aggVars, scoreVars, waitVars, dispatchVars>>
otherThanAggregation == <<searchVars, crawlVars, cacheVars, scoreVars, waitVars, dispatchVars>>
otherThanScoring == <<searchVars, crawlVars, cacheVars, aggVars, waitVars, dispatchVars>>
otherThanWait == <<searchVars, crawlVars, cacheVars, aggVars, scoreVars, dispatchVars>>
otherThanDispatch == <<crawlVars, cacheVars, aggVars, scoreVars, waitVars>>
vars == <<searchVars, crawlVars, cacheVars, aggVars, scoreVars, waitVars, dispatchVars>>

(***************************************************************************)
(* Bounds of the model.                                                    *)
(***************************************************************************)
MaxInvocations == 2     \* calls of multi_search_with_context in one process
MaxTabs == 2            \* largest concurrency_tabs tried
MaxHits == 2            \* most hits handed to the crawl stage
MaxCrawlConcurrency == 2 \* largest crawl_concurrency tried
MaxPages == 2           \* longest list of PageResults aggregated
MaxTime == 2            \* the clock runs from 0 to MaxTime
MaxNoise == 2           \* most noise keywords in a text that is scored

(***************************************************************************)
(* Helpers on sequences.                                                   *)
(***************************************************************************)
SeqsUpTo(S, n) == UNION {[1..k -> S] : k \in 0..n}

RECURSIVE FilterSeq(_, _)
\* The list comprehension [x for x in s if keep(x)], keep given as a set.
FilterSeq(s, keep) ==
    IF s = <<>> THEN <<>>
    ELSE IF Head(s) \in keep THEN <<Head(s)>> \o FilterSeq(Tail(s), keep)
         ELSE FilterSeq(Tail(s), keep)

Min(a, b) == IF a < b THEN a ELSE b

(***************************************************************************)
(* Search stage.                                                           *)
(***************************************************************************)
\* The adapter registry ENGINES, in its order.
ENGINES == <<"bing", "duckduckgo", "baidu">>
EngineNames == {ENGINES[i] : i \in 1..Len(ENGINES)}

\* Names a caller may request: the registered ones and one that is not.
RequestNames == EngineNames \cup {"google"}

\* The engines arguments tried, as sets of lowercased names: None or an empty
\* list ({}), known names only, unknown names only, and both.
RequestSets ==
    { {}, {"bing"}, {"google"}, {"bing", "google"}, {"duckduckgo", "baidu"},
      {"baidu", "duckduckgo", "google"} }

\* A resolution that rejects the whole request when it holds an unknown name.
ResolveStrict(names) ==
    IF names \subseteq EngineNames
    THEN {e \in EngineNames : names = {} \/ e \in names}
    ELSE {}

\* multi_search_with_context lines 183-184: the adapters of ENGINES whose name
\* is requested, all of them when nothing is requested.
Resolve(names) == {e \in EngineNames : names = {} \/ e \in names}

\* Engine.keep_tab_open (default True, no adapter overrides it).
keep_tab_open(e) == TRUE

\* A lock's holder: a task of the running call (its engine's name), a task of
\* an earlier call that ended without releasing it, or nobody.
NoOwner == "nobody"
EarlierCall == "task of an earlier call"

\* hrefs an engine's result page may carry; NoHref is an anchor whose title or
\* href is missing or whose read fails.
Hrefs == {"u1", "u2"}
NoHref == ""

\* The values of top_k_each tried.
TopKChoices == {1, 2}

\* The anchor lists a result page may show to result_selector.
ResultPages == {<<>>, <<"u1", NoHref, "u2">>, <<"u2", "u1">>}

Terminal == {"done", "failed"}

SearchInit ==
    /\ invocation = 0
    /\ dispatcher = "idle"
    /\ chosen = {}
    /\ engine_list = {}
    /\ concurrency_tabs = 1
    /\ top_k_each = 1
    /\ state_manager = FALSE
    /\ pc = [e \in EngineNames |-> "none"]
    /\ sem = 0
    /\ captcha_pause_lock = NoOwner
    /\ captcha_lock = NoOwner
    /\ open_tabs = {}
    /\ chunks = [e \in EngineNames |-> <<>>]
    /\ deduped = <<>>
    /\ saved = {}
    /\ is_captcha = [e \in EngineNames |-> "unset"]
    /\ resolution = [e \in EngineNames |-> "none"]

\* A lock that lets every acquire through.
LockFreeAlways(lock) == TRUE

\* asyncio.Lock.acquire() returns only when the lock is not held.
LockFree(lock) == lock = NoOwner

\* The module-level locks of utils.py 147-150 outlive a call: one that is held
\* when a call ends is still held, by a task that no longer runs, in the next.
StillHeld(lock) == IF lock = NoOwner THEN NoOwner ELSE EarlierCall

\* multi_search_with_context, lines 183-193: resolve the names, build the
\* semaphore and the tasks.  A new call is made once the previous call has ended
\* and its tasks have run to their end; it gets a browser context of its own
\* (tools.py 98-104), so no page of an earlier call is open in it.
MultiSearch(names, tabs, k, mgr) ==
    /\ dispatcher \in {"idle", "returned", "raised", "config_error"}
    /\ \A e \in EngineNames : pc[e] \in Terminal \cup {"none"}
    /\ invocation < MaxInvocations
    /\ invocation' = invocation + 1
    /\ chosen' = names
    /\ LET selected == Resolve(names)
       IN /\ engine_list' = selected
          /\ dispatcher' = IF selected = {} THEN "config_error" ELSE "running"
          /\ pc' = [e \in EngineNames |-> IF e \in selected THEN "sem_wait" ELSE "none"]
    /\ concurrency_tabs' = tabs
    /\ top_k_each' = k
    /\ state_manager' = mgr
    /\ sem' = tabs
    /\ chunks' = [e \in EngineNames |-> <<>>]
    /\ deduped' = <<>>
    /\ saved' = {}
    /\ is_captcha' = [e \in EngineNames |-> "unset"]
    /\ resolution' = [e \in EngineNames |-> "none"]
    /\ open_tabs' = {}
    /\ captcha_pause_lock' = StillHeld(captcha_pause_lock)
    /\ captcha_lock' = StillHeld(captcha_lock)
    /\ UNCHANGED otherThanSearch

\* fetch_engine line 111: async with sem.
SemAcquire(e) ==
    /\ pc[e] = "sem_wait"
    /\ sem > 0
    /\ sem' = sem - 1
    /\ pc' = [pc EXCEPT ![e] = "new_page"]
    /\ UNCHANGED <<resolution, is_captcha, chosen, invocation, dispatcher, engine_list, concurrency_tabs, top_k_each,
                   state_manager, captcha_pause_lock, captcha_lock, open_tabs,
                   chunks, deduped, saved,
                   otherThanSearch>>

\* Leaving fetch_engine by an exception: the finally of line 171 closes the page
\* only when keep_tab_open is off, then the semaphore is released.
TabsAfterExit(e) ==
    IF keep_tab_open(e) THEN open_tabs ELSE open_tabs \ {e}

\* line 114: page = await context.new_page(), outside the try.
NewPage(e, ok) ==
    /\ pc[e] = "new_page"
    /\ IF ok
       THEN /\ open_tabs' = open_tabs \cup {e}
            /\ pc' = [pc EXCEPT ![e] = "goto"]
            /\ sem' = sem
       ELSE /\ open_tabs' = open_tabs
            /\ pc' = [pc EXCEPT ![e] = "failed"]
            /\ sem' = sem + 1
    /\ UNCHANGED <<resolution, is_captcha, chosen, invocation, dispatcher, engine_list, concurrency_tabs, top_k_each,
                   state_manager, captcha_pause_lock, captcha_lock,
                   chunks, deduped, saved,
                   otherThanSearch>>

\* line 119: await page.goto(...).  A navigation error leaves through the finally.
Goto(e, ok) ==
    /\ pc[e] = "goto"
    /\ IF ok
       THEN /\ pc' = [pc EXCEPT ![e] = "detect"]
            /\ UNCHANGED <<sem, open_tabs>>
       ELSE /\ pc' = [pc EXCEPT ![e] = "failed"]
            /\ open_tabs' = TabsAfterExit(e)
            /\ sem' = sem + 1
    /\ UNCHANGED <<resolution, is_captcha, chosen, invocation, dispatcher, engine_list, concurrency_tabs, top_k_each,
                   state_manager, captcha_pause_lock, captcha_lock,
                   chunks, deduped, saved,
                   otherThanSearch>>

\* A task that takes the CAPTCHA path whatever its page shows.
AfterDetectPauseAll(found) == "pause_wait"

\* line 133, "if is_captcha:": the CAPTCHA path is entered only on a challenge.
AfterDetect(found) == IF found THEN "pause_wait" ELSE "extract"

\* lines 130-133: is_captcha = await is_captcha_page(page), which never raises.
Detect(e, found) ==
    /\ pc[e] = "detect"
    /\ is_captcha' = [is_captcha EXCEPT ![e] = IF found THEN "yes" ELSE "no"]
    /\ pc' = [pc EXCEPT ![e] = AfterDetect(found)]
    /\ UNCHANGED <<resolution, chosen, invocation, dispatcher, engine_list, concurrency_tabs, top_k_each,
                   state_manager, sem, captcha_pause_lock, captcha_lock, open_tabs,
                   chunks, deduped, saved,
                   otherThanSearch>>

\* line 135: await captcha_pause_lock.acquire().
PauseAcquire(e) ==
    /\ pc[e] = "pause_wait"
    /\ LockFree(captcha_pause_lock)
    /\ captcha_pause_lock' = e
    /\ pc' = [pc EXCEPT ![e] = "lock_wait"]
    /\ UNCHANGED <<resolution, is_captcha, chosen, invocation, dispatcher, engine_list, concurrency_tabs, top_k_each,
                   state_manager, sem, captcha_lock, open_tabs, chunks, deduped, saved,
                   otherThanSearch>>

\* line 138: async with captcha_lock.
LockAcquire(e) ==
    /\ pc[e] = "lock_wait"
    /\ LockFree(captcha_lock)
    /\ captcha_lock' = e
    /\ pc' = [pc EXCEPT ![e] = "bring_to_front"]
    /\ UNCHANGED <<resolution, is_captcha, chosen, invocation, dispatcher, engine_list, concurrency_tabs, top_k_each,
                   state_manager, sem, captcha_pause_lock, open_tabs, chunks,
                   deduped, saved,
                   otherThanSearch>>

\* The holder of captcha_pause_lock after the task leaves the async with of line
\* 138 by an exception of page.bring_to_front(): line 139 is outside the
\* try/finally of lines 141-152, so nothing releases the lock.
PauseAfterFrontError(e) == captcha_pause_lock

\* line 139: await page.bring_to_front().  An error leaves the async with
\* (releasing captcha_lock), then the outer finally, then the semaphore.
BringToFront(e, ok) ==
    /\ pc[e] = "bring_to_front"
    /\ IF ok
       THEN /\ pc' = [pc EXCEPT ![e] = "resolving"]
            /\ UNCHANGED <<sem, captcha_pause_lock, captcha_lock, open_tabs>>
       ELSE /\ pc' = [pc EXCEPT ![e] = "failed"]
            /\ captcha_lock' = NoOwner
            /\ captcha_pause_lock' = PauseAfterFrontError(e)
            /\ open_tabs' = TabsAfterExit(e)
            /\ sem' = sem + 1
    /\ UNCHANGED <<resolution, is_captcha, chosen, invocation, dispatcher, engine_list, concurrency_tabs, top_k_each,
                   state_manager, chunks, deduped, saved,
                   otherThanSearch>>

\* No other task is between two statements that no await separates: the event
\* loop runs one task at a time and switches at a suspending await only.
NoOtherMidStep(e) == \A o \in EngineNames \ {e} : pc[o] # "lock_exit"

\* A save that is made after a timeout as well.
SavesAfterAnyWait(how, mgr) == mgr

\* lines 142-145: the save follows the wait inside the try, so it is reached
\* only when the wait returned, and "if state_manager" guards it.
SavesAfterWait(how, mgr) == how = "resolved" /\ mgr

\* A TimeoutError that leaves fetch_engine.
AfterTimeoutFails == "failed"

\* lines 147-152: "except TimeoutError: pass", then the finally: the task goes
\* on to the end of the async with.
AfterTimeout == "lock_exit"

\* lines 142-152: await wait_for_captcha_resolution(page).  It returns (the
\* challenge is gone) or raises TimeoutError, which line 147 swallows.  With no
\* save to make, the finally of line 150 runs at once and releases
\* captcha_pause_lock; the task is then at the end of the async with of line
\* 138, still holding captcha_lock.
WaitResolution(e, resolved) ==
    /\ pc[e] = "resolving"
    /\ resolution' = [resolution EXCEPT ![e] = IF resolved THEN "resolved" ELSE "timeout"]
    /\ IF SavesAfterWait(resolution'[e], state_manager)
       THEN /\ pc' = [pc EXCEPT ![e] = "save_state"]
            /\ UNCHANGED captcha_pause_lock
       ELSE /\ pc' = [pc EXCEPT ![e] = IF resolved THEN "lock_exit" ELSE AfterTimeout]
            /\ captcha_pause_lock' = NoOwner
    /\ UNCHANGED <<is_captcha, chosen, invocation, dispatcher, engine_list, concurrency_tabs, top_k_each,
                   state_manager, sem, captcha_lock, open_tabs, chunks, deduped, saved,
                   otherThanSearch>>

\* lines 144-152: await state_manager.save_context_state(context, eng.name),
\* which returns a bool and never raises (state_cache.py 187-192); then the
\* finally of line 150 releases captcha_pause_lock.
SaveState(e, ok) ==
    /\ pc[e] = "save_state"
    /\ saved' = IF ok THEN saved \cup {e} ELSE saved
    /\ pc' = [pc EXCEPT ![e] = "lock_exit"]
    /\ captcha_pause_lock' = NoOwner
    /\ UNCHANGED <<resolution, is_captcha, chosen, invocation, dispatcher, engine_list, concurrency_tabs, top_k_each,
                   state_manager, sem, captcha_lock, open_tabs, chunks, deduped,
                   otherThanSearch>>

\* The end of the async with of line 138, reached from the finally of line 150
\* without an await: captcha_lock is released.
LockExit(e) ==
    /\ pc[e] = "lock_exit"
    /\ captcha_lock' = NoOwner
    /\ pc' = [pc EXCEPT ![e] = "extract"]
    /\ UNCHANGED <<resolution, is_captcha, chosen, invocation, dispatcher, engine_list, concurrency_tabs, top_k_each,
                   state_manager, sem, captcha_pause_lock, open_tabs, chunks, deduped, saved,
                   otherThanSearch>>

\* An extraction that reads every anchor of the page, whatever top_k is.
extract_all(anchors, top_k) == FilterSeq(anchors, Hrefs)

\* extract_results, lines 75-101, on the first min(count, top_k) anchors (the
\* caller passes them): an anchor without title or href, or whose read fails,
\* is skipped.
extract_results(anchors, top_k) ==
    LET first == SubSeq(anchors, 1, Min(Len(anchors), top_k))
    IN FilterSeq(first, Hrefs)

\* lines 162-169: the hit dictionaries built from the extracted items.
HitsOf(e, items) == [i \in 1..Len(items) |-> [engine |-> e, url |-> items[i]]]

\* lines 154-173: the settle sleep, post_goto (its only page call swallows its
\* errors), extract_results, the return, the finally and the semaphore.
Extract(e, anchors) ==
    /\ pc[e] = "extract"
    /\ chunks' = [chunks EXCEPT ![e] = HitsOf(e, extract_results(anchors, top_k_each))]
    /\ pc' = [pc EXCEPT ![e] = "done"]
    /\ is_captcha' = [is_captcha EXCEPT ![e] = "unset"]
    /\ resolution' = [resolution EXCEPT ![e] = "none"]
    /\ open_tabs' = TabsAfterExit(e)
    /\ sem' = sem + 1
    /\ UNCHANGED <<chosen, invocation, dispatcher, engine_list, concurrency_tabs, top_k_each,
                   state_manager, captcha_pause_lock, captcha_lock, deduped, saved,
                   otherThanSearch>>

RECURSIVE ConcatAsArrived(_, _)
\* The chunks taken in the order in which the tasks ended.
ConcatAsArrived(i, ch) ==
    IF i > Len(arrived) THEN <<>>
    ELSE ch[arrived[i]] \o ConcatAsArrived(i + 1, ch)

RECURSIVE Concat(_, _)
\* [x for c in chunks for x in c], the chunks taken in the order of ENGINES.
Concat(i, ch) ==
    IF i > Len(ENGINES) THEN <<>>
    ELSE (IF ENGINES[i] \in engine_list THEN ch[ENGINES[i]] ELSE <<>>) \o Concat(i + 1, ch)

\* A return of the concatenation as it is, without the dedupe loop.
DedupeKeepsAll(rs, seen) == rs

RECURSIVE DedupeFrom(_, _)
\* lines 198-204: keep the first hit of each url.
DedupeFrom(rs, seen) ==
    IF rs = <<>> THEN <<>>
    ELSE LET it == Head(rs)
         IN IF it.url # "" /\ it.url \notin seen
            THEN <<it>> \o DedupeFrom(Tail(rs), seen \cup {it.url})
            ELSE DedupeFrom(Tail(rs), seen)

\* What asyncio.gather(*tasks) of line 194 does when a task ends with an
\* exception: return_exceptions is off, so the exception is raised in the
\* awaiting multi_search_with_context.
GatherOnFailure == "raised"

\* line 194, a task has failed.
GatherRaise ==
    /\ dispatcher = "running"
    /\ \A e \in EngineNames : pc[e] # "lock_exit"
    /\ \E e \in engine_list : pc[e] = "failed"
    /\ dispatcher' = GatherOnFailure
    /\ deduped' = IF GatherOnFailure = "returned"
                  THEN DedupeFrom(Concat(1, chunks), {}) ELSE deduped
    /\ UNCHANGED <<resolution, is_captcha, chosen, invocation, engine_list, concurrency_tabs, top_k_each, state_manager,
                   pc, sem, captcha_pause_lock, captcha_lock, open_tabs, chunks, saved,
                   otherThanSearch>>

\* lines 194-206, every task has returned.
GatherReturn ==
    /\ dispatcher = "running"
    /\ \A e \in engine_list : pc[e] = "done"
    /\ dispatcher' = "returned"
    /\ deduped' = DedupeFrom(Concat(1, chunks), {})
    /\ UNCHANGED <<resolution, is_captcha, chosen, invocation, engine_list, concurrency_tabs, top_k_each, state_manager,
                   pc, sem, captcha_pause_lock, captcha_lock, open_tabs, chunks, saved,
                   otherThanSearch>>

\* A fetch_engine task takes its next step.
TaskStep(e) ==
    /\ NoOtherMidStep(e)
    /\ \/ SemAcquire(e)
       \/ \E ok \in BOOLEAN : NewPage(e, ok)
       \/ \E ok \in BOOLEAN : Goto(e, ok)
       \/ \E c \in BOOLEAN : Detect(e, c)
       \/ PauseAcquire(e)
       \/ LockAcquire(e)
       \/ \E ok \in BOOLEAN : BringToFront(e, ok)
       \/ \E r \in BOOLEAN : WaitResolution(e, r)
       \/ \E ok \in BOOLEAN : SaveState(e, ok)
       \/ LockExit(e)
       \/ \E a \in ResultPages : Extract(e, a)

SearchNext ==
    \/ \E names \in RequestSets, tabs \in 1..MaxTabs, k \in TopKChoices,
          mgr \in BOOLEAN : MultiSearch(names, tabs, k, mgr)
    \/ \E e \in EngineNames : TaskStep(e)
    \/ GatherRaise
    \/ GatherReturn

(***************************************************************************)
(* Crawl stage: _web_search lines 121-134 and crawl_page_content.          *)
(***************************************************************************)
\* urls of hits: hrefs as read from a result page.  PageResult.url is a
\* pydantic HttpUrl (models.py 13), which only an absolute http(s) url passes.
HitUrls == {"https://a.example/", "https://b.example/", "javascript:;"}
\* The hrefs of the search stage stand for absolute urls.
IsHttpUrl(u) == u \in {"https://a.example/", "https://b.example/"} \cup Hrefs

\* Lists of hits with distinct urls (the dispatcher returns them deduplicated).
HitLists ==
    {h \in SeqsUpTo(HitUrls, MaxHits) : \A i, j \in 1..Len(h) : i # j => h[i] # h[j]}

\* The awaited steps of the try block of crawl_page_content, in order:
\* navigation (432), the waits (436-439), the in-page evaluation (442-467), the
\* extraction strategies (469-504), scoring and selection (506-523) and the
\* construction of the PageResult (527-538).
TrySteps == <<"goto", "wait", "evaluate", "extract", "score", "build">>
StepAfter(st) ==
    LET i == CHOOSE k \in 1..Len(TrySteps) : TrySteps[k] = st
    IN IF i < Len(TrySteps) THEN TrySteps[i + 1] ELSE "close"

NoOutcome == [kind |-> "none", error |-> ""]
Success == [kind |-> "result", error |-> ""]
ErrorResult(desc) == [kind |-> "result", error |-> desc]
Raised(desc) == [kind |-> "exception", error |-> desc]

HitIds == 1..(MaxHits + 1)

InitCrawlVars ==
    /\ crawl_stage = "idle"
    /\ results = <<>>
    /\ crawl_concurrency = 1
    /\ crawl_sem = 0
    /\ cpc = [i \in HitIds |-> "none"]
    /\ outcome = [i \in HitIds |-> NoOutcome]
    /\ crawl_pages = {}
    /\ pages = <<>>

\* tools.py 122-127: the semaphore and one crawl_page_content task per hit.
StartCrawl(hits, cap) ==
    /\ crawl_stage = "idle"
    /\ crawl_stage' = "crawling"
    /\ results' = hits
    /\ crawl_concurrency' = cap
    /\ crawl_sem' = cap
    /\ cpc' = [i \in HitIds |-> IF i <= Len(hits) THEN "sem_wait" ELSE "none"]
    /\ UNCHANGED <<outcome, crawl_pages, pages, otherThanCrawl>>

\* page_crawler.py 426: async with sem.
CrawlSemAcquire(i) ==
    /\ cpc[i] = "sem_wait"
    /\ crawl_sem > 0
    /\ crawl_sem' = crawl_sem - 1
    /\ cpc' = [cpc EXCEPT ![i] = "new_page"]
    /\ UNCHANGED <<crawl_stage, results, crawl_concurrency, outcome, crawl_pages, pages, otherThanCrawl>>

\* What crawl_page_content does when context.new_page() raises: line 427 is
\* outside the try of line 428, so the exception leaves the function.
OnNewPageError(i) == Raised("new_page")

\* page_crawler.py 427: page = await context.new_page().
CrawlNewPage(i, ok) ==
    /\ cpc[i] = "new_page"
    /\ IF ok
       THEN /\ crawl_pages' = crawl_pages \cup {i}
            /\ cpc' = [cpc EXCEPT ![i] = "goto"]
            /\ UNCHANGED <<crawl_sem, outcome>>
       ELSE /\ outcome' = [outcome EXCEPT ![i] = OnNewPageError(i)]
            /\ cpc' = [cpc EXCEPT ![i] = "ended"]
            /\ crawl_sem' = crawl_sem + 1
            /\ UNCHANGED crawl_pages
    /\ UNCHANGED <<crawl_stage, results, crawl_concurrency, pages, otherThanCrawl>>

\* The except handler of lines 540-552: PageResult(url=item.get("url"), ...,
\* error=repr(e)).  The constructor validates url; a url that is no HttpUrl
\* raises pydantic's ValidationError out of the handler.
ExceptHandler(i, desc) ==
    IF IsHttpUrl(results[i]) THEN ErrorResult(desc) ELSE Raised("ValidationError")

\* One awaited step of the try block, lines 429-538.  A step that raises goes
\* to the except handler; the last step builds the PageResult, whose
\* constructor raises ValidationError on a url that is no HttpUrl.
CrawlStep(i, ok) ==
    /\ cpc[i] \in {TrySteps[k] : k \in 1..Len(TrySteps)}
    /\ LET st == cpc[i]
           fine == ok /\ (st = "build" => IsHttpUrl(results[i]))
       IN /\ cpc' = [cpc EXCEPT ![i] = IF fine THEN StepAfter(st) ELSE "close"]
          /\ outcome' = [outcome EXCEPT ![i] =
                IF fine THEN (IF st = "build" THEN Success ELSE NoOutcome)
                ELSE ExceptHandler(i, st)]
    /\ UNCHANGED <<crawl_stage, results, crawl_concurrency, crawl_sem, crawl_pages, pages, otherThanCrawl>>

\* What the call ends with when page.close() in the finally raises: the new
\* exception replaces the pending return value or exception.
OnCloseError(i) == Raised("close")

\* A close that is made on the success path only, not in a finally.
PagesAfterCloseOnSuccess(i) ==
    IF outcome[i].error = "" THEN crawl_pages \ {i} ELSE crawl_pages

\* The open pages after "finally: await page.close()" of lines 553-554, which
\* runs on every exit of the try.
PagesAfterClose(i) == crawl_pages \ {i}

\* lines 553-554: finally: await page.close(); then the semaphore is released
\* and the pending result is returned.  close() raises only when the page, its
\* context or the browser is closed already, so the page is gone either way.
CrawlClose(i, ok) ==
    /\ cpc[i] = "close"
    /\ crawl_pages' = PagesAfterClose(i)
    /\ outcome' = [outcome EXCEPT ![i] = IF ok THEN outcome[i] ELSE OnCloseError(i)]
    /\ cpc' = [cpc EXCEPT ![i] = "ended"]
    /\ crawl_sem' = crawl_sem + 1
    /\ UNCHANGED <<crawl_stage, results, crawl_concurrency, pages, otherThanCrawl>>

RECURSIVE KeepResults(_, _)
\* tools.py 129-134: the loop over pages_raw that skips the exceptions.
KeepResults(i, outs) ==
    IF i > Len(results) THEN <<>>
    ELSE (IF outs[i].kind = "exception" THEN <<>>
          ELSE <<[hit |-> i, url |-> results[i], error |-> outs[i].error]>>)
         \o KeepResults(i + 1, outs)

\* tools.py 127-134: asyncio.gather(*tasks, return_exceptions=True) returns when
\* every task has ended.
CrawlGather ==
    /\ crawl_stage = "crawling"
    /\ \A i \in 1..Len(results) : cpc[i] = "ended"
    /\ crawl_stage' = "gathered"
    /\ pages' = KeepResults(1, outcome)
    /\ UNCHANGED <<results, crawl_concurrency, crawl_sem, cpc, outcome, crawl_pages, otherThanCrawl>>

CrawlNext ==
    \/ \E hits \in HitLists, c \in 1..MaxCrawlConcurrency : StartCrawl(hits, c)
    \/ \E i \in HitIds : CrawlSemAcquire(i)
    \/ \E i \in HitIds, ok \in BOOLEAN : CrawlNewPage(i, ok)
    \/ \E i \in HitIds, ok \in BOOLEAN : CrawlStep(i, ok)
    \/ \E i \in HitIds, ok \in BOOLEAN : CrawlClose(i, ok)
    \/ CrawlGather

(***************************************************************************)
(* State cache: StateCacheManager of state_cache.py.                       *)
(*                                                                         *)
(* No method of the manager awaits anything that suspends, except an       *)
(* acquire of a lock that is held: a call runs to its end in one step, or  *)
(* blocks.  Writes and deletions of files are taken to succeed.            *)
(***************************************************************************)
\* The engines whose cache entries the model follows.
CacheEngines == {"bing", "duckduckgo"}

\* StateCacheManager.ENGINE_DOMAINS.  A domain is the list of its labels:
\* "www.bing.com" is <<"www", "bing", "com">>.
ENGINE_DOMAINS(e) ==
    CASE e = "bing" -> {<<"bing", "com">>, <<"www", "bing", "com">>}
      [] e = "duckduckgo" -> {<<"duckduckgo", "com">>, <<"www", "duckduckgo", "com">>}
      [] e = "baidu" -> {<<"baidu", "com">>, <<"www", "baidu", "com">>}
      [] e = "yandex" -> {<<"yandex", "com">>, <<"yandex", "ru">>,
                          <<"www", "yandex", "com">>, <<"www", "yandex", "ru">>}
      [] OTHER -> {}

\* ttl_seconds of the manager, in units of the model's clock.
ttl_seconds == 1

\* Cookies, each given by its domain attribute split at the dots (a leading dot
\* gives a leading empty label): ".bing.com", "cn.bing.com", "notbing.com",
\* "duckduckgo.com".
DotBing == <<"", "bing", "com">>
CnBing == <<"cn", "bing", "com">>
NotBing == <<"notbing", "com">>
Ddg == <<"duckduckgo", "com">>

\* Origins: scheme and host, as in "https://www.bing.com".
Origin(scheme, host) == [scheme |-> scheme, host |-> host]
HttpsWwwBing == Origin("https", <<"www", "bing", "com">>)
HttpsCnBing == Origin("https", <<"cn", "bing", "com">>)
HttpDdg == Origin("http", <<"duckduckgo", "com">>)
HttpsEvil == Origin("https", <<"evil", "example">>)

StorageState(cookies, origins) == [cookies |-> cookies, origins |-> origins]

\* The storage states a caller saves.
InputStates ==
    { StorageState(<<DotBing, NotBing>>, <<HttpsWwwBing, HttpsEvil>>),
      StorageState(<<Ddg, CnBing>>, <<HttpsCnBing, HttpDdg>>) }

RECURSIVE lstrip(_)
\* str.lstrip("."): drop the leading dots (the leading empty labels).
lstrip(d) == IF d # <<>> /\ Head(d) = "" THEN lstrip(Tail(d)) ELSE d

\* domain.endswith("." + ad)
EndsWithDot(d, ad) ==
    /\ Len(d) > Len(ad)
    /\ SubSeq(d, Len(d) - Len(ad) + 1, Len(d)) = ad

\* save_state line 142, the test on a cookie.
CookieAllowed(cookie, allowed_domains) ==
    LET domain == lstrip(cookie)
    IN \E ad \in allowed_domains : domain = ad \/ EndsWithDot(domain, ad)

\* save_state line 150, the test on an origin.
OriginAllowed(origin, allowed_domains) ==
    \E ad \in allowed_domains :
        origin = Origin("https", ad) \/ origin = Origin("http", ad)

\* save_state lines 135-157: filtered_state.
filtered_state(engine_name, state) ==
    LET allowed_domains == ENGINE_DOMAINS(engine_name)
    IN StorageState(SelectSeq(state.cookies, LAMBDA c : CookieAllowed(c, allowed_domains)),
                    SelectSeq(state.origins, LAMBDA o : OriginAllowed(o, allowed_domains)))

\* A state file: absent, or present with content that is not JSON ("corrupt"),
\* that cannot be read ("unreadable"), or that is a storage state ("json").
EmptyState == StorageState(<<>>, <<>>)
NoFile == [kind |-> "absent", state |-> EmptyState]
BadFile(kind) == [kind |-> kind, state |-> EmptyState]
JsonFile(state) == [kind |-> "json", state |-> state]

\* An engine's entry of metadata.json.  expires_kind tells what is under the key
\* expires_at: nothing ("missing"), an ISO date without time zone as save_state
\* writes it ("iso"), a string that is no ISO date ("unparsable"), or a JSON
\* value that is no string, such as null or a number ("not_a_string").
NoMeta == [present |-> FALSE, created_at |-> 0, expires_kind |-> "missing",
           expires_at |-> 0, last_used |-> 0]
FreshMeta(t) == [present |-> TRUE, created_at |-> t, expires_kind |-> "iso",
                 expires_at |-> t + ttl_seconds, last_used |-> t]
NoEntries == [e \in CacheEngines |-> NoMeta]

\* What a call returned: None, a storage state, a bool or a count.
None == [kind |-> "None", state |-> EmptyState, value |-> 0]
Returned(kind, state, value) == [kind |-> kind, state |-> state, value |-> value]

\* _load_metadata, lines 55-63: {} when the file is absent or not JSON.
LoadMetadata(mf) == IF mf.kind = "json" THEN mf.entries ELSE NoEntries

\* _save_metadata, lines 65-68.
SaveMetadata(entries) == [kind |-> "json", entries |-> entries]

\* _is_expired, line 75: datetime.fromisoformat raises TypeError on a value
\* that is no string, and line 77 catches ValueError and KeyError only.
IsExpiredRaises(engine_meta) == engine_meta.expires_kind = "not_a_string"

\* _is_expired, lines 70-78, when it returns.
IsExpired(engine_meta, t) ==
    IF engine_meta.expires_kind # "iso" THEN TRUE ELSE t > engine_meta.expires_at

\* is_state_valid, lines 80-94: whether the call raises (it reaches _is_expired,
\* which raises).
IsStateValidRaises(w, engine_name) ==
    LET metadata == LoadMetadata(w.metadata_file)
    IN /\ metadata[engine_name].present
       /\ w.state_files[engine_name].kind # "absent"
       /\ IsExpiredRaises(metadata[engine_name])

\* is_state_valid, lines 80-94, when it returns.
IsStateValid(w, engine_name, t) ==
    LET metadata == LoadMetadata(w.metadata_file)
    IN IF ~metadata[engine_name].present THEN FALSE
       ELSE IF w.state_files[engine_name].kind = "absent" THEN FALSE
       ELSE ~IsExpired(metadata[engine_name], t)

\* The files and locks a method works on, and what a method gives back: the
\* files and locks it leaves, whether it returned, raised or is blocked on a
\* lock, and its return value.
World(files, mf, lk) == [state_files |-> files, metadata_file |-> mf, locks |-> lk]
Ends(w, status, result) == [w |-> w, status |-> status, result |-> result]

\* invalidate_state that leaves the metadata entry in place.
InvalidateKeepsEntry(w, engine_name) ==
    IF w.locks[engine_name] # NoOwner THEN Ends(w, "blocked", None)
    ELSE Ends(World([w.state_files EXCEPT ![engine_name] = NoFile],
                    SaveMetadata(LoadMetadata(w.metadata_file)), w.locks),
              "returned", None)

\* invalidate_state that writes an empty metadata file.
InvalidateForgetsOthers(w, engine_name) ==
    IF w.locks[engine_name] # NoOwner THEN Ends(w, "blocked", None)
    ELSE Ends(World([w.state_files EXCEPT ![engine_name] = NoFile],
                    SaveMetadata(NoEntries), w.locks),
              "returned", None)

\* invalidate_state, lines 216-232: under the engine's lock, delete the file
\* and rewrite the metadata without the engine's entry.
InvalidateState(w, engine_name) ==
    IF w.locks[engine_name] # NoOwner THEN Ends(w, "blocked", None)
    ELSE Ends(World([w.state_files EXCEPT ![engine_name] = NoFile],
                    SaveMetadata([LoadMetadata(w.metadata_file) EXCEPT ![engine_name] = NoMeta]),
                    w.locks),
              "returned", None)

\* A load that renews the entry as a save does.
TouchedAndRenewed(engine_meta, t) ==
    [engine_meta EXCEPT !.last_used = t, !.expires_at = t + ttl_seconds]

\* load_state line 115: metadata[engine_name]["last_used"] = now.
Touched(engine_meta, t) == [engine_meta EXCEPT !.last_used = t]

\* load_state, lines 96-122.
LoadState(w, engine_name, t) ==
    IF IsStateValidRaises(w, engine_name) THEN Ends(w, "raised", None)
    ELSE IF ~IsStateValid(w, engine_name, t)
    THEN InvalidateState(w, engine_name)
    ELSE IF w.locks[engine_name] # NoOwner THEN Ends(w, "blocked", None)
    ELSE LET held == World(w.state_files, w.metadata_file,
                           [w.locks EXCEPT ![engine_name] = "load_state"])
             file == w.state_files[engine_name]
         IN IF file.kind = "json"
            THEN \* lines 110-118
                 LET metadata == LoadMetadata(w.metadata_file)
                     touched == [metadata EXCEPT ![engine_name] = Touched(@, t)]
                 IN Ends(World(w.state_files, SaveMetadata(touched), w.locks),
                         "returned", Returned("state", file.state, 0))
            ELSE \* lines 119-122: invalidate_state called with the lock held
                 LET inner == InvalidateState(held, engine_name)
                 IN IF inner.status = "blocked" THEN Ends(held, "blocked", None)
                    ELSE Ends(World(inner.w.state_files, inner.w.metadata_file, w.locks),
                              "returned", None)

\* save_state that writes the state as given.
SaveUnfiltered(w, engine_name, state, t) ==
    IF w.locks[engine_name] # NoOwner THEN Ends(w, "blocked", None)
    ELSE Ends(World([w.state_files EXCEPT ![engine_name] = JsonFile(state)],
                    SaveMetadata([LoadMetadata(w.metadata_file) EXCEPT
                                     ![engine_name] = FreshMeta(t)]),
                    w.locks),
              "returned", Returned("bool", EmptyState, 1))

\* save_state that builds the metadata anew instead of loading it: the entries
\* of the other engines are lost.
SaveForgetsOthers(w, engine_name, state, t) ==
    IF w.locks[engine_name] # NoOwner THEN Ends(w, "blocked", None)
    ELSE Ends(World([w.state_files EXCEPT
                        ![engine_name] = JsonFile(filtered_state(engine_name, state))],
                    SaveMetadata([NoEntries EXCEPT ![engine_name] = FreshMeta(t)]),
                    w.locks),
              "returned", Returned("bool", EmptyState, 1))

\* save_state, lines 124-176.
SaveState_(w, engine_name, state, t) ==
    IF w.locks[engine_name] # NoOwner THEN Ends(w, "blocked", None)
    ELSE Ends(World([w.state_files EXCEPT
                        ![engine_name] = JsonFile(filtered_state(engine_name, state))],
                    SaveMetadata([LoadMetadata(w.metadata_file) EXCEPT
                                     ![engine_name] = FreshMeta(t)]),
                    w.locks),
              "returned", Returned("bool", EmptyState, 1))

\* "if state:" of line 205: a dict is true unless it is empty; one that
\* save_state wrote has the keys cookies and origins.
Truthy(result) == result.kind = "state"

RECURSIVE LoadMergedFrom(_, _, _, _, _)
\* load_merged_state, lines 200-214: the loop over engine_names.
LoadMergedFrom(w, engine_names, t, merged, has_valid) ==
    IF engine_names = <<>>
    THEN Ends(w, "returned", IF has_valid THEN Returned("state", merged, 0) ELSE None)
    ELSE LET one == LoadState(w, Head(engine_names), t)
         IN IF one.status # "returned" THEN Ends(one.w, one.status, None)
            ELSE IF Truthy(one.result)
            THEN LoadMergedFrom(one.w, Tail(engine_names), t,
                                StorageState(merged.cookies \o one.result.state.cookies,
                                             merged.origins \o one.result.state.origins),
                                TRUE)
            ELSE LoadMergedFrom(one.w, Tail(engine_names), t, merged, has_valid)

LoadMergedState(w, engine_names, t) ==
    LoadMergedFrom(w, engine_names, t, EmptyState, FALSE)

RECURSIVE InvalidateAll(_, _, _)
\* cleanup_expired_states, lines 246-249: invalidate_state on each expired
\* engine in turn, then the count.
InvalidateAll(w, expired, count) ==
    IF expired = <<>> THEN Ends(w, "returned", Returned("count", EmptyState, count))
    ELSE LET one == InvalidateState(w, Head(expired))
         IN IF one.status # "returned" THEN Ends(one.w, one.status, None)
            ELSE InvalidateAll(one.w, Tail(expired), count)

\* cleanup_expired_states, lines 234-249.  items is the order of the keys of
\* metadata.json; _is_expired is asked of every entry before anything is
\* removed.
CleanupExpiredStates(w, items, t) ==
    LET metadata == LoadMetadata(w.metadata_file)
        listed == SelectSeq(items, LAMBDA e : metadata[e].present)
        expired == SelectSeq(listed, LAMBDA e : IsExpired(metadata[e], t))
    IN IF \E i \in 1..Len(listed) : IsExpiredRaises(metadata[listed[i]])
       THEN Ends(w, "raised", None)
       ELSE InvalidateAll(w, expired, Len(expired))

Disk == World(state_files, metadata_file, locks)

\* What a call that reads an engine's entry found: the kind of the engine's
\* state file, its metadata entry and its lock.
Found(op, engine_name) ==
    IF op \in {"load_state", "is_state_valid"}
    THEN [file |-> state_files[engine_name].kind,
          meta |-> LoadMetadata(metadata_file)[engine_name],
          lock |-> locks[engine_name]]
    ELSE [file |-> "absent", meta |-> NoMeta, lock |-> NoOwner]

\* The save_state call that returned in the step before, when it was on the
\* same engine as the load_state call being made.
NoSave == [engine_name |-> "", state |-> EmptyState]
AfterSave(op, engine_name) ==
    IF /\ op = "load_state"
       /\ call.op = "save_state" /\ call.status = "returned"
       /\ call.engine_name = engine_name
    THEN [engine_name |-> engine_name, state |-> call.state]
    ELSE NoSave

\* The record of a call: the method, its arguments, what it found and how it
\* ended.
Call(op, engine_name, engine_names, state, ends) ==
    [op |-> op, engine_name |-> engine_name, engine_names |-> engine_names,
     state |-> state, at |-> now, found |-> Found(op, engine_name),
     after_save |-> AfterSave(op, engine_name),
     status |-> ends.status, result |-> ends.result]

NoCall == [op |-> "none", engine_name |-> "", engine_names |-> <<>>,
           state |-> EmptyState, at |-> 0,
           found |-> [file |-> "absent", meta |-> NoMeta, lock |-> NoOwner],
           after_save |-> NoSave,
           status |-> "returned", result |-> None]

InitCacheVars ==
    /\ now = 0
    /\ state_files = [e \in CacheEngines |-> NoFile]
    /\ metadata_file = [kind |-> "absent", entries |-> NoEntries]
    /\ locks = [e \in CacheEngines |-> NoOwner]
    /\ call = NoCall

\* A call ends: the files and locks are as it left them.
Finish(op, engine_name, engine_names, state, ends) ==
    /\ state_files' = ends.w.state_files
    /\ metadata_file' = ends.w.metadata_file
    /\ locks' = ends.w.locks
    /\ call' = Call(op, engine_name, engine_names, state, ends)
    /\ UNCHANGED <<now, otherThanCache>>

CallIsStateValid(e) ==
    LET ends == IF IsStateValidRaises(Disk, e) THEN Ends(Disk, "raised", None)
                ELSE Ends(Disk, "returned",
                          Returned("bool", EmptyState,
                                   IF IsStateValid(Disk, e, now) THEN 1 ELSE 0))
    IN /\ ends.status \in {"returned", "raised"}
       /\ Finish("is_state_valid", e, <<>>, EmptyState, ends)

CallLoadState(e) ==
    LET ends == LoadState(Disk, e, now)
    IN /\ ends.status \in {"returned", "raised", "blocked"}
       /\ Finish("load_state", e, <<>>, EmptyState, ends)

CallSaveState(e, state) ==
    LET ends == SaveState_(Disk, e, state, now)
    IN /\ ends.status \in {"returned", "blocked"}
       /\ Finish("save_state", e, <<>>, state, ends)

CallInvalidateState(e) ==
    LET ends == InvalidateState(Disk, e)
    IN /\ ends.status \in {"returned", "blocked"}
       /\ Finish("invalidate_state", e, <<>>, EmptyState, ends)

CallLoadMergedState(engine_names) ==
    LET ends == LoadMergedState(Disk, engine_names, now)
    IN /\ ends.status \in {"returned", "raised", "blocked"}
       /\ Finish("load_merged_state", "", engine_names, EmptyState, ends)

\* cleanup_expired_states(), the keys of metadata.json being in any order.
CallCleanupExpiredStates ==
    \E items \in {<<"bing", "duckduckgo">>, <<"duckduckgo", "bing">>} :
        LET ends == CleanupExpiredStates(Disk, items, now)
        IN /\ ends.status \in {"returned", "raised", "blocked"}
           /\ Finish("cleanup_expired_states", "", <<>>, EmptyState, ends)

\* The lists of engine names a caller passes to load_merged_state.
NameLists ==
    {ns \in SeqsUpTo(CacheEngines, Cardinality(CacheEngines)) :
        \A i, j \in 1..Len(ns) : i # j => ns[i] # ns[j]}

\* Time passes.
Tick ==
    /\ now < MaxTime
    /\ now' = now + 1
    /\ call' = NoCall
    /\ UNCHANGED <<state_files, metadata_file, locks, otherThanCache>>

\* Outside the program, a state file is damaged (a crash in the middle of a
\* write, a change of permissions) or deleted.
EnvDamageStateFile(e, kind) ==
    /\ state_files[e].kind # "absent"
    /\ state_files' = [state_files EXCEPT ![e] =
                          IF kind = "absent" THEN NoFile ELSE BadFile(kind)]
    /\ call' = NoCall
    /\ UNCHANGED <<now, metadata_file, locks, otherThanCache>>

\* Outside the program, metadata.json is damaged as a whole, or an entry is
\* replaced by one without expires_at, or with an expires_at that is no ISO
\* date or no string.
EnvDamageMetadata(e, kind) ==
    /\ metadata_file.kind = "json"
    /\ metadata_file.entries[e].present
    /\ metadata_file' =
          IF kind = "corrupt" THEN [kind |-> "corrupt", entries |-> NoEntries]
          ELSE [metadata_file EXCEPT !.entries[e] =
                   [present |-> TRUE, created_at |-> 0, expires_kind |-> kind,
                    expires_at |-> 0, last_used |-> 0]]
    /\ call' = NoCall
    /\ UNCHANGED <<now, state_files, locks, otherThanCache>>

CacheNext ==
    \/ \E e \in CacheEngines : CallIsStateValid(e)
    \/ \E e \in CacheEngines : CallLoadState(e)
    \/ \E e \in CacheEngines, state \in InputStates : CallSaveState(e, state)
    \/ \E e \in CacheEngines : CallInvalidateState(e)
    \/ \E ns \in NameLists : CallLoadMergedState(ns)
    \/ Tick
    \/ \E e \in CacheEngines, kind \in {"corrupt", "unreadable", "absent"} :
          EnvDamageStateFile(e, kind)
    \/ \E e \in CacheEngines, kind \in {"corrupt", "missing", "unparsable", "not_a_string"} :
          EnvDamageMetadata(e, kind)

(***************************************************************************)
(* The specifications.                                                     *)
(***************************************************************************)
(***************************************************************************)
(* Aggregation: PageResult.is_good of models.py and the filter and dedupe  *)
(* of _web_search, tools.py 142-152.  The code is synchronous: one call is *)
(* one step.                                                               *)
(***************************************************************************)
\* Python's None in a field of a PageResult.
NoValue == "<None>"

\* The text lengths is_good compares with: 160 for a github_issue page and
\* 256 for every other page.
GithubIssueTextLen == 160
OtherTextLen == 256

\* A PageResult, by the fields the aggregation reads; text_len is len(text).
PageResult(url, final_url, method, text_len, error) ==
    [url |-> url, final_url |-> final_url, method |-> method,
     text_len |-> text_len, error |-> error]

\* The PageResults tried: every method, text length around both thresholds
\* and error for one url, and the other urls and redirects for pages of
\* either goodness.
PageSamples ==
    {PageResult("u1", NoValue, m, n, err) :
        m \in {"github_issue", "body", NoValue},
        n \in {GithubIssueTextLen, GithubIssueTextLen + 1,
               OtherTextLen, OtherTextLen + 1},
        err \in {NoValue, "TimeoutError()"}}
    \cup {PageResult(u[1], u[2], "readability", n, NoValue) :
        u \in {<<"u1", "u1">>, <<"u2", "u1">>, <<"u2", NoValue>>, <<"u3", "u2">>},
        n \in {OtherTextLen, OtherTextLen + 1, OtherTextLen + 2}}

RECURSIVE ListsUpTo(_, _)
\* The lists of at most n members of S.
ListsUpTo(S, n) ==
    IF n = 0 THEN {<<>>}
    ELSE LET shorter == ListsUpTo(S, n - 1)
         IN shorter \cup {<<x>> \o l : x \in S, l \in {k \in shorter : Len(k) = n - 1}}

PageLists == ListsUpTo(PageSamples, MaxPages)

InitAggVars ==
    /\ agg_pages = <<>>
    /\ good_results = <<>>
    /\ agg_deduped = <<>>
    /\ agg_round = "none"

\* A goodness test that does not look at the error.
is_good_whatever_error(p) ==
    IF p.method = "github_issue" THEN p.text_len > GithubIssueTextLen
    ELSE p.text_len > OtherTextLen

\* PageResult.is_good, models.py 32-39.
is_good(p) ==
    IF p.error # NoValue THEN FALSE
    ELSE IF p.method = "github_issue" THEN p.text_len > GithubIssueTextLen
    ELSE p.text_len > OtherTextLen

\* str() of an Optional[HttpUrl]: the url's text, or "None".
str(u) == IF u = NoValue THEN "None" ELSE u

\* A key that ignores the redirect target.
url_key_of_request(p) == str(p.url)

\* tools.py 149: url = str(p.final_url or p.url).
url_key(p) == str(IF p.final_url # NoValue THEN p.final_url ELSE p.url)

RECURSIVE DedupePagesPrepending(_, _)
\* A dedupe loop that puts each kept page in front of the list.
DedupePagesPrepending(ps, seen_urls) ==
    IF ps = <<>> THEN <<>>
    ELSE LET p == Head(ps)
         IN IF url_key(p) \notin seen_urls
            THEN DedupePagesPrepending(Tail(ps), seen_urls \cup {url_key(p)}) \o <<p>>
            ELSE DedupePagesPrepending(Tail(ps), seen_urls)

RECURSIVE DedupePages(_, _)
\* tools.py 146-152: keep the first page of each key.
DedupePages(ps, seen_urls) ==
    IF ps = <<>> THEN <<>>
    ELSE LET p == Head(ps)
         IN IF url_key(p) \notin seen_urls
            THEN <<p>> \o DedupePages(Tail(ps), seen_urls \cup {url_key(p)})
            ELSE DedupePages(Tail(ps), seen_urls)

\* tools.py 142-152 on the list ps.
Aggregate(ps, round) ==
    /\ agg_pages' = ps
    /\ good_results' = SelectSeq(ps, is_good)
    /\ agg_deduped' = DedupePages(good_results', {})
    /\ agg_round' = round
    /\ UNCHANGED otherThanAggregation

\* The aggregation of _web_search on the pages the crawl stage kept; a call of
\* _web_search gets to line 142 once.
AggregatePages ==
    /\ agg_round = "none"
    /\ \E ps \in PageLists : Aggregate(ps, "first")

\* The same aggregation run on the output of the aggregation before.
AggregateAgain ==
    /\ agg_round # "none"
    /\ Aggregate(agg_deduped, "again")

AggregationNext ==
    \/ AggregatePages
    \/ AggregateAgain

(***************************************************************************)
(* Scoring and ranking: _score_text and lines 506-520 of                   *)
(* crawl_page_content, page_crawler.py.  _score_text reads five counts of  *)
(* its text; a text is given by them.  Its terms are multiples of 1/40, so *)
(* scores are kept as whole numbers of fortieths: the length term          *)
(* min(length, 12000) / 40 is min(length, 12000) fortieths, 1.8 a          *)
(* paragraph is 72, 0.15 a line is 6, 12 a noise keyword is 480 and 0.35 a *)
(* short line is 14.  The weights of METHOD_PRIOR are kept in hundredths.  *)
(***************************************************************************)
ScoreScale == 40
MinScoredLength == 120
LengthClamp == 12000
ParasClamp == 60
LinesClamp == 180
ParaFortieths == 72
LineFortieths == 6
NoiseFortieths == 480
ShortLineFortieths == 14

Max(a, b) == IF a > b THEN a ELSE b

Text(length, paras, lines, noise, short_lines) ==
    [length |-> length, paras |-> paras, lines |-> lines, noise |-> noise,
     short_lines |-> short_lines]

EmptyText == Text(0, 1, 1, 0, 0)

\* Counts that a text can have: P paragraphs are parted by P - 1 blank lines,
\* every line but the last ends with a newline, a short line has a character
\* and a noise keyword has two or more.
Plausible(t) ==
    /\ t.lines >= 2 * t.paras - 1
    /\ t.short_lines <= t.lines
    /\ t.length >= (t.lines - 1) + t.short_lines + 2 * t.noise

\* The lengths tried: around the floor of 120 and around the clamp of 12000.
Lengths ==
    {0, MinScoredLength - 1, MinScoredLength, MinScoredLength + 1, 600,
     LengthClamp - 1, LengthClamp, LengthClamp + 1}

\* The texts tried.
Texts ==
    {t \in {Text(n, p, l, k, sh) : n \in Lengths, p \in {1, 2, ParasClamp + 1},
                                   l \in {1, 3, 30, LinesClamp + 1},
                                   k \in 0..MaxNoise, sh \in {0, 3}} :
        Plausible(t)}

\* A length term that is not clamped.
length_term_unclamped(length) == length

\* line 210: min(length, 12000) / 40.0, in fortieths.
length_term(length) == Min(length, LengthClamp)

\* A penalty of 10 a noise keyword.
noise_penalty_of_ten(noise) == noise * (NoiseFortieths - 2 * ScoreScale)

\* line 213: noise * 12.0, in fortieths.
noise_penalty(noise) == noise * NoiseFortieths

\* _score_text, lines 194-216, in fortieths.
_score_text(t) ==
    IF t.length = 0 \/ t.length < MinScoredLength THEN 0
    ELSE Max(length_term(t.length)
             + Min(t.paras, ParasClamp) * ParaFortieths
             + Min(t.lines, LinesClamp) * LineFortieths
             - noise_penalty(t.noise)
             - t.short_lines * ShortLineFortieths, 0)

\* The methods in the order in which lines 471-497 append their candidates.
Methods == <<"github_issue", "selectors", "main_block", "readability">>

\* METHOD_PRIOR with the weights the other way round.
METHOD_PRIOR_reversed(m) ==
    CASE m = "github_issue" -> 90
      [] m = "selectors" -> 100
      [] m = "main_block" -> 110
      [] m = "readability" -> 120
      [] m = "body" -> 155

\* METHOD_PRIOR, lines 506-512, in hundredths.
METHOD_PRIOR(m) ==
    CASE m = "github_issue" -> 155
      [] m = "selectors" -> 120
      [] m = "main_block" -> 110
      [] m = "readability" -> 100
      [] m = "body" -> 90

\* The texts an extraction strategy may give: two of equal score, one of a
\* higher score and one that noise brings down to 0.
CandidateTexts ==
    {Text(600, 2, 3, 0, 0), Text(600, 2, 3, 0, 3), Text(LengthClamp, 2, 30, 1, 0),
     Text(600, 1, 1, MaxNoise, 0)}

NoText == Text(0, 0, 0, 0, 0)

RECURSIVE CandidatesFrom(_, _)
\* lines 469-497: a strategy whose text is empty appends nothing.
CandidatesFrom(i, given) ==
    IF i > Len(Methods) THEN <<>>
    ELSE (IF given[i] = NoText THEN <<>> ELSE <<[method |-> Methods[i], text |-> given[i]]>>)
         \o CandidatesFrom(i + 1, given)

\* lines 469-504: the candidates of the four strategies, or the body text when
\* they gave none.  The github_issue text is kept from 160 characters on.
CandidateLists ==
    {CandidatesFrom(1, g) : g \in {h \in [1..Len(Methods) -> CandidateTexts \cup {NoText}] :
                                     \E i \in 1..Len(Methods) : h[i] # NoText}}
    \cup {<<[method |-> "body", text |-> t]>> : t \in CandidateTexts}

\* lines 514-517: s = _score_text(t) * METHOD_PRIOR.get(m, 1.0), in 4000ths.
Scored(cs) ==
    [i \in 1..Len(cs) |-> [method |-> cs[i].method,
                            score |-> _score_text(cs[i].text) * METHOD_PRIOR(cs[i].method),
                            text |-> cs[i].text]]

RECURSIVE InsertByScore(_, _)
\* x put into a list sorted by falling score, behind the members that score
\* as much as x or more.
InsertByScore(x, sorted) ==
    IF sorted = <<>> THEN <<x>>
    ELSE IF Head(sorted).score >= x.score
         THEN <<Head(sorted)>> \o InsertByScore(x, Tail(sorted))
         ELSE <<x>> \o sorted

RECURSIVE SortByScore(_, _)
\* line 519: scored.sort(key=lambda x: x[1], reverse=True).  list.sort is
\* stable, with reverse as well: members of equal score keep their order.
SortByScore(todo, sorted) ==
    IF todo = <<>> THEN sorted
    ELSE SortByScore(Tail(todo), InsertByScore(Head(todo), sorted))

NoBefore == [text |-> EmptyText, score |-> 0]

\* No call of _extract_main_block yet.
NotExtracted == [ran |-> FALSE, els |-> <<>>, text |-> NoText]

\* The fields of a PageResult that lines 527-552 take from the ranking.
NoPageResult == [method |-> "", score |-> 0, text |-> NoText, candidates |-> <<>>, error |-> ""]

\* The body fallback on every page.
BodyAlways(cs) == TRUE

\* line 500: if not candidates.
BodyNeeded(cs) == cs = <<>>

\* lines 499-504: the body text is read when no strategy gave a candidate and
\* is appended when it is not empty.
WithBody(cs, body) ==
    IF BodyNeeded(cs) /\ body # NoText THEN Append(cs, [method |-> "body", text |-> body])
    ELSE cs

\* The last of the sorted list.
BestOfLast(sorted) == sorted[Len(sorted)]

\* line 520: scored[0].
BestOf(sorted) == sorted[1]

\* line 536: method, score and len of every member of scored, in its order.
CandidateScores(sorted) ==
    [i \in 1..Len(sorted) |-> [method |-> sorted[i].method, score |-> sorted[i].score,
                                len |-> sorted[i].text.length]]

\* lines 520-538, and 540-552 when scored is empty: scored[0] raises
\* IndexError, which "except Exception" turns into an error result.
PageResultOf(sorted) ==
    IF sorted = <<>>
    THEN [method |-> "", score |-> 0, text |-> NoText, candidates |-> <<>>,
          error |-> "IndexError('list index out of range')"]
    ELSE [method |-> BestOf(sorted).method, score |-> BestOf(sorted).score,
          text |-> BestOf(sorted).text, candidates |-> CandidateScores(sorted),
          error |-> ""]

InitScoreVars ==
    /\ text = EmptyText
    /\ score = 0
    /\ before = NoBefore
    /\ edit = "none"
    /\ candidates = <<>>
    /\ scored = <<>>
    /\ fallback = "unset"
    /\ page_result = NoPageResult
    /\ main_block = NotExtracted

\* _score_text on a new text.
ScoreText ==
    /\ edit = "none"
    /\ candidates = <<>>
    /\ \E t \in Texts :
          /\ text' = t
          /\ score' = _score_text(t)
    /\ before' = NoBefore
    /\ edit' = "scored"
    /\ UNCHANGED <<candidates, scored, fallback, page_result, main_block, otherThanScoring>>

\* _score_text on the text scored before with one more occurrence of a noise
\* keyword and the same length, paragraphs, lines and short lines.
ScoreWithMoreNoise ==
    /\ edit # "none"
    /\ text.noise < MaxNoise + 1
    /\ LET t == [text EXCEPT !.noise = @ + 1]
       IN /\ Plausible(t)
          /\ text' = t
          /\ score' = _score_text(t)
    /\ before' = [text |-> text, score |-> score]
    /\ edit' = "noise"
    /\ UNCHANGED <<candidates, scored, fallback, page_result, main_block, otherThanScoring>>

\* _score_text on the text scored before made longer, with the same
\* paragraphs, lines, noise keywords and short lines.
ScoreLonger ==
    /\ edit # "none"
    /\ \E n \in Lengths :
          /\ n > text.length
          /\ text' = [text EXCEPT !.length = n]
          /\ score' = _score_text(text')
    /\ before' = [text |-> text, score |-> score]
    /\ edit' = "longer"
    /\ UNCHANGED <<candidates, scored, fallback, page_result, main_block, otherThanScoring>>

\* lines 506-520: the candidates are weighted and sorted.
RankCandidates ==
    /\ fallback = "unset"
    /\ candidates = <<>>
    /\ edit = "none"
    /\ \E cs \in CandidateLists :
          /\ candidates' = cs
          /\ scored' = SortByScore(Scored(cs), <<>>)
    /\ UNCHANGED <<text, score, before, edit, fallback, page_result, main_block, otherThanScoring>>

(***************************************************************************)
(* The main-block strategy, _extract_main_block, lines 358-409.  An        *)
(* element is its text, given by the counts _score_text reads, and its     *)
(* link density in hundredths; its len is the length of its text.          *)
(***************************************************************************)
MaxExtra == 2
MinBlockLength == 180       \* x.len >= 180
MaxLinkDensity == 45        \* ld > 0.45, in hundredths
TopCut == 25                \* candidates[:25]
LinkPenalty == 32           \* ld * 80.0: 80 / 100 a hundredth, in fortieths

Element(t, ld) == [text |-> t, ld |-> ld]

\* A block of links, longer than any article.
NavBlock == Element(Text(LengthClamp + 1, 2, 30, 0, 0), 50)

\* The other elements tried: articles without and with links, one at the
\* density of 0.45, one below 180 characters, one that noise brings to 0 and a
\* long block of links.
OtherElements ==
    {Element(Text(600, 2, 3, 0, 0), 0), Element(Text(LengthClamp, 2, 30, 1, 0), 10),
     Element(Text(LengthClamp, 2, 3, 0, 0), MaxLinkDensity),
     Element(Text(MinBlockLength - 1, 2, 3, 0, 0), 0),
     Element(Text(600, 1, 1, MaxNoise, 0), 0),
     Element(Text(LengthClamp, 2, 3, 0, 0), MaxLinkDensity + 1)}

RECURSIVE Copies(_, _)
Copies(n, x) == IF n = 0 THEN <<>> ELSE <<x>> \o Copies(n - 1, x)

\* line 395: b.len / (1 + b.ld * 2) - a.len / (1 + a.ld * 2) < 0: a goes first.
RanksBefore(a, b) ==
    a.text.length * (100 + 2 * b.ld) > b.text.length * (100 + 2 * a.ld)

RECURSIVE InsertByRank(_, _)
InsertByRank(x, sorted) ==
    IF sorted = <<>> THEN <<x>>
    ELSE IF RanksBefore(x, Head(sorted)) THEN <<x>> \o sorted
    ELSE <<Head(sorted)>> \o InsertByRank(x, Tail(sorted))

RECURSIVE SortByRank(_, _)
\* line 395: the sort of the page's elements, which is stable.
SortByRank(todo, sorted) ==
    IF todo = <<>> THEN sorted
    ELSE SortByRank(Tail(todo), InsertByRank(Head(todo), sorted))

\* candidates[:25].
Top(list) == SubSeq(list, 1, Min(Len(list), TopCut))

\* line 394: filter(x => x.len >= 180).
LongEnough(x) == x.text.length >= MinBlockLength

\* lines 402-404: the elements that are not skipped.
LowDensity(x) == x.ld <= MaxLinkDensity

\* line 406: s = _score_text(t) - ld * 80.0, in fortieths.
BlockScore(x) == _score_text(x.text) - x.ld * LinkPenalty

RECURSIVE BestBlock(_, _, _)
\* lines 400-409: the first element of the largest score above 0, or "".
BestBlock(list, best_text, best_score) ==
    IF list = <<>> THEN best_text
    ELSE IF BlockScore(Head(list)) > best_score
         THEN BestBlock(Tail(list), Head(list).text, BlockScore(Head(list)))
         ELSE BestBlock(Tail(list), best_text, best_score)

\* _extract_main_block: the elements of 180 characters or more are sorted, the
\* first 25 are kept, and those of them with a link density above 0.45 are
\* skipped in the loop.
_extract_main_block(elements) ==
    BestBlock(SelectSeq(Top(SortByRank(SelectSeq(elements, LongEnough), <<>>)), LowDensity),
              NoText, 0)

\* _extract_main_block on a page with some blocks of links and some other
\* elements.
ExtractMainBlock ==
    /\ ~main_block.ran
    /\ \E n \in 0..(TopCut + 1), others \in SeqsUpTo(OtherElements, MaxExtra) :
          LET elements == others \o Copies(n, NavBlock)
          IN main_block' = [ran |-> TRUE, els |-> elements,
                            text |-> _extract_main_block(elements)]
    /\ UNCHANGED <<text, score, before, edit, candidates, scored, fallback, page_result,
                   otherThanScoring>>

MainBlockNext ==
    \/ ExtractMainBlock

\* lines 469-552 of crawl_page_content on a page that has loaded: the four
\* strategies, the body fallback, the ranking and the result.
ExtractAndSelect ==
    /\ fallback = "unset"
    /\ candidates = <<>>
    /\ edit = "none"
    /\ \E given \in [1..Len(Methods) -> CandidateTexts \cup {NoText}],
          body \in CandidateTexts \cup {NoText} :
          LET produced == CandidatesFrom(1, given)
              cs == WithBody(produced, body)
              sorted == SortByScore(Scored(cs), <<>>)
          IN /\ fallback' = IF BodyNeeded(produced) THEN "tried" ELSE "skipped"
             /\ candidates' = cs
             /\ scored' = sorted
             /\ page_result' = PageResultOf(sorted)
    /\ UNCHANGED <<text, score, before, edit, main_block, otherThanScoring>>

ScoringNext ==
    \/ ScoreText
    \/ ScoreWithMoreNoise
    \/ ScoreLonger
    \/ RankCandidates
    \/ ExtractAndSelect

(***************************************************************************)
(* CAPTCHA probe and resolution wait: is_captcha_page and                  *)
(* wait_for_captcha_resolution of utils.py.  Times are in half seconds and *)
(* are the sleeps of the code; a call on the page is taken to take no time. *)
(***************************************************************************)
timeout_ms == 240       \* timeout_ms = 120000
DomSettleSleep == 20    \* asyncio.sleep(10.0) of is_captcha_page
SettleSleep == 1        \* asyncio.sleep(0.5) before the return
PollSleep == 2          \* asyncio.sleep(1) between two probes

\* What a page shows to is_captcha_page:
\*   html      "ok" | "raises": the evaluate of line 162;
\*   url       the lowercased page.url, by whether it holds a challenge token;
\*   dom       "none": no challenge element; "captcha": a .captcha element;
\*             "header_unreadable": a .captcha_header element whose text cannot
\*             be read; "widget": a generic challenge element only;
\*             "raises": a query of the DOM probe raises;
\*   body_text document.body.innerText, or BodyRaises when its read raises.
BodyRaises == "<evaluate raises>"
BodyTexts ==
    {"Please verify you are human", "Just a moment...", "10 results for tla", "", BodyRaises}
UrlKinds == {"https://www.bing.com/search?q=tla", "https://www.bing.com/challenge?id=1"}
PageViews ==
    [html : {"ok", "raises"}, url : UrlKinds,
     dom : {"none", "captcha", "header_unreadable", "widget", "raises"},
     body_text : BodyTexts]

\* line 170: a token of the list is in the url.
UrlHasToken(url) == url = "https://www.bing.com/challenge?id=1"

\* line 246: body_text.lower(), on the texts tried.
Lower(t) ==
    CASE t = "Please verify you are human" -> "please verify you are human"
      [] t = "Just a moment..." -> "just a moment..."
      [] OTHER -> t

\* lines 247-251: a keyword of the list is in the lowercased text.
HasKeyword(lowered) == lowered \in {"please verify you are human", "just a moment..."}

\* A probe whose error leaves is_captcha_page.
ProbeErrorRaises == "raise"

\* lines 166, 238 and 252: "except Exception" around each probe: the error is
\* logged and the probe counts as one that did not match.
ProbeError == "no_match"

\* The DOM probe, lines 174-239: a match, no match, or what an error does.
DomProbe(view) ==
    CASE view.dom = "none" -> "no_match"
      [] view.dom = "raises" -> ProbeError
      [] OTHER -> "match"

\* The page-text probe, lines 241-253.
TextProbe(view) ==
    IF view.body_text = BodyRaises THEN ProbeError
    ELSE IF view.body_text # "" /\ HasKeyword(Lower(view.body_text)) THEN "match"
    ELSE "no_match"

\* How a call of is_captcha_page ends: raised or returned, the value returned,
\* the probes it tried in order, and the time it slept.
Ended(raised, value, tried, slept) ==
    [raised |-> raised, value |-> value, tried |-> tried, slept |-> slept]

\* is_captcha_page, lines 153-256.
is_captcha_page(view) ==
    IF view.html = "raises" /\ ProbeError = "raise"
    THEN Ended(TRUE, FALSE, <<>>, 0)
    ELSE IF UrlHasToken(view.url) THEN Ended(FALSE, TRUE, <<"url">>, 0)
    ELSE IF DomProbe(view) = "raise" THEN Ended(TRUE, FALSE, <<"url", "dom">>, DomSettleSleep)
    ELSE IF DomProbe(view) = "match" THEN Ended(FALSE, TRUE, <<"url", "dom">>, DomSettleSleep)
    ELSE IF TextProbe(view) = "raise"
         THEN Ended(TRUE, FALSE, <<"url", "dom", "text">>, DomSettleSleep)
    ELSE Ended(FALSE, TextProbe(view) = "match", <<"url", "dom", "text">>, DomSettleSleep)

NoView == [html |-> "ok", url |-> "", dom |-> "none", body_text |-> ""]
NotProbed == [view |-> NoView, ended |-> Ended(FALSE, FALSE, <<>>, 0)]

InitWaitVars ==
    /\ wait_pc = "idle"
    /\ elapsed = 0
    /\ probed = NotProbed

\* line 266: start_time = loop.time().
WaitBegin ==
    /\ wait_pc = "idle"
    /\ wait_pc' = "check"
    /\ elapsed' = 0
    /\ UNCHANGED <<probed, otherThanWait>>

\* lines 270-272: the timeout check at the head of the loop.
WaitCheck ==
    /\ wait_pc = "check"
    /\ wait_pc' = IF elapsed > timeout_ms THEN "timeout" ELSE "probe"
    /\ UNCHANGED <<elapsed, probed, otherThanWait>>

\* line 275: await is_captcha_page(page), on what the page shows by now.
WaitProbe ==
    /\ wait_pc = "probe"
    /\ \E view \in PageViews :
          LET ended == is_captcha_page(view)
          IN /\ probed' = [view |-> view, ended |-> ended]
             /\ elapsed' = elapsed + ended.slept
             /\ wait_pc' = IF ended.raised THEN "raised"
                           ELSE IF ended.value THEN "sleep" ELSE "settle"
    /\ UNCHANGED otherThanWait

\* lines 276-278: no challenge: sleep half a second and return.
WaitSettle ==
    /\ wait_pc = "settle"
    /\ elapsed' = elapsed + SettleSleep
    /\ wait_pc' = "returned"
    /\ UNCHANGED <<probed, otherThanWait>>

\* line 281: the challenge is still there: sleep a second and loop.
WaitSleep ==
    /\ wait_pc = "sleep"
    /\ elapsed' = elapsed + PollSleep
    /\ wait_pc' = "check"
    /\ UNCHANGED <<probed, otherThanWait>>

CaptchaWaitNext ==
    \/ WaitBegin
    \/ WaitCheck
    \/ WaitProbe
    \/ WaitSettle
    \/ WaitSleep

(***************************************************************************)
(* The dispatcher with its engines argument as a list, and gather:         *)
(* multi_search_with_context, lines 175-206.  A fetch_engine task is taken *)
(* as one step here, from its start to the return of its hits.             *)
(***************************************************************************)
\* engines=None, or a list of names.
Absent == [absent |-> TRUE, names |-> <<>>]
Given(names) == [absent |-> FALSE, names |-> names]

\* The arguments tried: none, the empty list, names in and against the order
\* of ENGINES, in other case, and names that are not registered.
EnginesArguments ==
    {Absent, Given(<<>>), Given(<<"Bing">>), Given(<<"google">>),
     Given(<<"baidu", "Bing">>), Given(<<"bing", "baidu">>),
     Given(<<"baidu", "duckduckgo">>), Given(<<"google", "yahoo">>),
     Given(<<"duckduckgo", "google", "bing">>)}

\* e.lower() on the names tried.
LowerName(n) ==
    CASE n = "Bing" -> "bing"
      [] OTHER -> n

\* A test for None in place of the test for truth.
IsNone(arg) == arg.absent

\* line 183: "if engines" fails for None and for the empty list.
IsFalsy(arg) == arg.absent \/ arg.names = <<>>

\* line 183: chosen = set(e.lower() for e in engines) if engines else None;
\* None is kept as {}.
ChosenOf(arg) ==
    IF IsFalsy(arg) THEN {} ELSE {LowerName(arg.names[i]) : i \in 1..Len(arg.names)}

\* line 184: engine_list = [e for e in ENGINES if (chosen is None or e.name in
\* chosen)].
EngineListOf(arg) ==
    {e \in EngineNames : IsFalsy(arg) \/ e \in {LowerName(arg.names[i]) : i \in 1..Len(arg.names)}}

InitDispatchVars ==
    /\ engines = Absent
    /\ arrived = <<>>

\* lines 183-193, on the engines argument as given.
Dispatch(arg, k) ==
    /\ dispatcher \in {"idle", "returned", "raised", "config_error"}
    /\ \A e \in EngineNames : pc[e] \in Terminal \cup {"none"}
    /\ invocation < MaxInvocations
    /\ invocation' = invocation + 1
    /\ engines' = arg
    /\ arrived' = <<>>
    /\ chosen' = ChosenOf(arg)
    /\ engine_list' = EngineListOf(arg)
    /\ dispatcher' = IF EngineListOf(arg) = {} THEN "config_error" ELSE "running"
    /\ pc' = [e \in EngineNames |-> IF e \in EngineListOf(arg) THEN "sem_wait" ELSE "none"]
    /\ top_k_each' = k
    /\ chunks' = [e \in EngineNames |-> <<>>]
    /\ deduped' = <<>>
    /\ UNCHANGED <<concurrency_tabs, state_manager, sem, captcha_pause_lock, captcha_lock,
                   open_tabs, saved, is_captcha, resolution, otherThanDispatch>>

\* A fetch_engine task from start to end on a page that shows no challenge:
\* it returns its hits, at any time with respect to the other tasks.
TaskCompletes(e, anchors) ==
    /\ dispatcher = "running"
    /\ pc[e] = "sem_wait"
    /\ chunks' = [chunks EXCEPT ![e] = HitsOf(e, extract_results(anchors, top_k_each))]
    /\ pc' = [pc EXCEPT ![e] = "done"]
    /\ arrived' = Append(arrived, e)
    /\ UNCHANGED <<engines, invocation, dispatcher, chosen, engine_list, concurrency_tabs,
                   top_k_each, state_manager, sem, captcha_pause_lock, captcha_lock,
                   open_tabs, deduped, saved, is_captcha, resolution, otherThanDispatch>>

DispatchNext ==
    \/ \E arg \in EnginesArguments, k \in TopKChoices : Dispatch(arg, k)
    \/ \E e \in EngineNames, a \in ResultPages : TaskCompletes(e, a)
    \/ GatherReturn

Init ==
    /\ SearchInit /\ InitCrawlVars /\ InitCacheVars /\ InitAggVars
    /\ InitScoreVars /\ InitWaitVars /\ InitDispatchVars

SpecSearch == Init /\ [][SearchNext]_vars

\* The event loop runs every task that can take a step, and the awaiting caller
\* once gather has an outcome: each page operation and each wait ends.
SpecSearchFair ==
    /\ SpecSearch
    /\ \A e \in EngineNames : WF_vars(TaskStep(e))
    /\ WF_vars(GatherRaise)
    /\ WF_vars(GatherReturn)

SpecCrawl == Init /\ [][CrawlNext]_vars

SpecCache == Init /\ [][CacheNext]_vars

\* The cache under the three operations on a single engine only, with the
\* clock and the damage from outside.
CacheOpsNext ==
    \/ \E e \in CacheEngines : CallLoadState(e)
    \/ \E e \in CacheEngines, state \in InputStates : CallSaveState(e, state)
    \/ \E e \in CacheEngines : CallInvalidateState(e)
    \/ Tick
    \/ \E e \in CacheEngines, kind \in {"corrupt", "unreadable", "absent"} :
          EnvDamageStateFile(e, kind)
    \/ \E e \in CacheEngines, kind \in {"corrupt", "missing", "unparsable", "not_a_string"} :
          EnvDamageMetadata(e, kind)

SpecCacheOps == Init /\ [][CacheOpsNext]_vars

CacheCleanupNext ==
    \/ \E e \in CacheEngines : CallLoadState(e)
    \/ \E e \in CacheEngines, state \in InputStates : CallSaveState(e, state)
    \/ \E e \in CacheEngines : CallInvalidateState(e)
    \/ CallCleanupExpiredStates
    \/ Tick
    \/ \E e \in CacheEngines, kind \in {"corrupt", "absent"} :
          EnvDamageStateFile(e, kind)
    \/ \E e \in CacheEngines, kind \in {"corrupt", "missing", "not_a_string"} :
          EnvDamageMetadata(e, kind)

SpecCacheCleanup == Init /\ [][CacheCleanupNext]_vars

SpecAggregation == Init /\ [][AggregationNext]_vars

SpecScoring == Init /\ [][ScoringNext]_vars

SpecMainBlock == Init /\ [][MainBlockNext]_vars

SpecDispatch == Init /\ [][DispatchNext]_vars

SpecCaptchaWait == Init /\ [][CaptchaWaitNext]_vars

(***************************************************************************)
(* The two stages in sequence: _web_search of tools.py, lines 94-140.      *)
(***************************************************************************)
\* tools.py 25 and 94: the engines every call of the tool searches.
ALL_ENGINES == {"duckduckgo", "baidu"}

\* tools.py 117: concurrency_tabs=3.
ToolConcurrencyTabs == 3

\* The urls of a hit list, in order: the items handed to crawl_page_content.
UrlsOf(hits) == [i \in 1..Len(hits) |-> hits[i].url]

\* A crawl stage that starts as soon as the search stage has been started.
SearchResultsReadyEarly == dispatcher \in {"running", "returned"}

\* tools.py 112: results = await multi_search_with_context(...): line 122 is
\* reached only when the call has returned its list.
SearchResultsReady == dispatcher = "returned"

\* tools.py 94-119: the search stage of a call of the tool.  Calls of the tool
\* follow one another: the crawl stage of the call before is over.
WebSearchSearch(top_k) ==
    /\ crawl_stage = "idle"
    /\ MultiSearch(ALL_ENGINES, ToolConcurrencyTabs, top_k, TRUE)

\* tools.py 121-126: the crawl stage, on the list the search stage returned.
WebSearchCrawl(cap) ==
    /\ SearchResultsReady
    /\ StartCrawl(UrlsOf(deduped), cap)

\* tools.py 136-160: the states are saved, the browser is closed and the call
\* returns; its semaphore, tasks and pages are gone.
WebSearchReturn ==
    /\ crawl_stage = "gathered"
    /\ dispatcher' = "idle"
    /\ crawl_stage' = "idle"
    /\ results' = <<>>
    /\ crawl_sem' = 0
    /\ cpc' = [i \in HitIds |-> "none"]
    /\ outcome' = [i \in HitIds |-> NoOutcome]
    /\ crawl_pages' = {}
    /\ pages' = <<>>
    /\ UNCHANGED <<resolution, is_captcha, chosen, invocation, engine_list, concurrency_tabs,
                   top_k_each, state_manager, pc, sem, captcha_pause_lock,
                   captcha_lock, open_tabs, chunks, deduped, saved,
                   crawl_concurrency, cacheVars, aggVars, scoreVars, waitVars, dispatchVars>>

WebSearchNext ==
    \/ \E k \in TopKChoices : WebSearchSearch(k)
    \/ \E e \in EngineNames : TaskStep(e)
    \/ GatherRaise
    \/ GatherReturn
    \/ \E c \in 1..MaxCrawlConcurrency : WebSearchCrawl(c)
    \/ \E i \in HitIds : CrawlSemAcquire(i)
    \/ \E i \in HitIds, ok \in BOOLEAN : CrawlNewPage(i, ok)
    \/ \E i \in HitIds, ok \in BOOLEAN : CrawlStep(i, ok)
    \/ \E i \in HitIds, ok \in BOOLEAN : CrawlClose(i, ok)
    \/ CrawlGather
    \/ WebSearchReturn

SpecWebSearch == Init /\ [][WebSearchNext]_vars

(***************************************************************************)
(* Claims about the search stage, checked under SpecSearch.                *)
(***************************************************************************)
\* The task is inside the section "page brought to front and waiting for the
\* user": lines 139-152 of fetch_engine.
InResolution(e) == pc[e] \in {"bring_to_front", "resolving", "save_state"}

\* C1: at every moment at most one search task is inside the CAPTCHA resolution
\* section, and the task inside it is the holder of captcha_pause_lock: a second
\* task that detected a challenge does not begin its resolution wait until the
\* first has released the lock.
C1_OneResolutionAtATime ==
    /\ Cardinality({e \in EngineNames : InResolution(e)}) <= 1
    /\ \A e \in EngineNames : InResolution(e) => captcha_pause_lock = e

\* Two tasks detected a challenge: one waits for the user, the other is queued
\* on captcha_pause_lock.
C1_Witness ==
    \E e1, e2 \in EngineNames :
        /\ e1 # e2
        /\ pc[e1] = "resolving"
        /\ pc[e2] = "pause_wait"

\* C2: no task ends while captcha_pause_lock is still held on its behalf,
\* whichever way it left the CAPTCHA handling; so the lock is never found held
\* by a task of an earlier call either.
C2_PauseLockReleasedOnEveryExit ==
    /\ \A e \in EngineNames : pc[e] \in Terminal => captcha_pause_lock # e
    /\ captcha_pause_lock # EarlierCall

\* C3: when an engine's task fails as a whole, the search does not raise; it
\* returns the other engines' hits, the failed engine contributing none.
C3_EngineFailureContained ==
    (\E e \in engine_list : pc[e] = "failed") =>
        /\ dispatcher # "raised"
        /\ dispatcher = "returned" => deduped = DedupeFrom(Concat(1, chunks), {})

(***************************************************************************)
(* Claims about the crawl stage, checked under SpecCrawl.                  *)
(***************************************************************************)
\* C4: crawl_page_content never propagates an exception: every call that has
\* ended returned a PageResult, and a call in which a step failed returned one
\* whose error field is set.
C4_ExtractNeverRaises ==
    \A i \in HitIds : cpc[i] = "ended" => outcome[i].kind = "result"

\* C5: the crawl stage passes on exactly one PageResult per hit.
C5_OnePageResultPerHit ==
    crawl_stage = "gathered" => Len(pages) = Len(results)

(***************************************************************************)
(* Claims about the state cache, checked under SpecCache.                  *)
(***************************************************************************)
\* The call made by the latest step was op on engine e and has returned.
JustReturned(op, e) ==
    call.op = op /\ call.engine_name = e /\ call.status = "returned"

EntryGone(e) ==
    /\ state_files[e].kind = "absent"
    /\ ~LoadMetadata(metadata_file)[e].present

\* C6: a load_state call that finds the engine's metadata entry present and
\* unexpired and its state file corrupt or unreadable returns (it neither
\* raises nor hangs), returns None, and leaves neither the state file nor the
\* metadata entry.
C6_CorruptFileSelfHeals ==
    \A e \in CacheEngines :
        ( /\ call.op = "load_state" /\ call.engine_name = e
          /\ call.found.file \in {"corrupt", "unreadable"}
          /\ call.found.meta.present
          /\ call.found.meta.expires_kind = "iso"
          /\ call.at < call.found.meta.expires_at )
        => /\ call.status = "returned"
           /\ call.result = None
           /\ EntryGone(e)

\* The validity C7 states: the state file exists and now < expires_at.
ValidBefore(found, t) ==
    /\ found.file # "absent"
    /\ found.meta.present
    /\ found.meta.expires_kind = "iso"
    /\ t < found.meta.expires_at

\* C7: an entry is treated as valid iff its state file exists and
\* now < expires_at: is_state_valid answers so, and load_state on an entry
\* with a missing file, a missing metadata entry, a missing or unparsable
\* expires_at, or now >= expires_at returns None and leaves no file and no
\* entry of the engine.
C7_ValidIffStrictlyBeforeExpiry ==
    \A e \in CacheEngines :
        /\ (call.op = "is_state_valid" /\ call.engine_name = e) =>
              /\ call.status = "returned"
              /\ call.result.value = 1 <=> ValidBefore(call.found, call.at)
        /\ ( /\ call.op = "load_state" /\ call.engine_name = e
             /\ call.found.lock = NoOwner
             /\ ~ValidBefore(call.found, call.at) )
           => /\ call.status = "returned"
              /\ call.result = None
              /\ EntryGone(e)

IsDomainOrSubdomain(d, ad) ==
    \E k \in 0..Len(d) : SubSeq(d, k + 1, Len(d)) = ad

\* A cookie matches an engine's whitelist when its domain, without leading
\* dots, is a whitelisted domain or a subdomain of one.
CookieMatches(e, cookie) ==
    \E ad \in ENGINE_DOMAINS(e) :
        IsDomainOrSubdomain(SelectSeq(cookie, LAMBDA l : l # ""), ad)

\* An origin matches when it is http(s)://<a whitelisted domain>.
OriginMatches(e, origin) ==
    /\ origin.scheme \in {"http", "https"}
    /\ origin.host \in ENGINE_DOMAINS(e)

\* sub is what is left of s when the elements that fail Keep are dropped.
IsRestriction(sub, s, Keep(_)) == sub = SelectSeq(s, Keep)

\* C9: save_state(engine, state) followed immediately by load_state(engine)
\* returns a state whose cookies and origins all match the engine's whitelist
\* and which holds every matching cookie and origin of the input, in the
\* input's order; a foreign-domain entry of the input never appears.
C9_RoundTripKeepsWhitelistedOnly ==
    \A e \in CacheEngines :
        (JustReturned("load_state", e) /\ call.after_save.engine_name = e) =>
            /\ call.result.kind = "state"
            /\ IsRestriction(call.result.state.cookies, call.after_save.state.cookies,
                             LAMBDA c : CookieMatches(e, c))
            /\ IsRestriction(call.result.state.origins, call.after_save.state.origins,
                             LAMBDA o : OriginMatches(e, o))

\* A state with a whitelisted and a foreign cookie and origin was saved and
\* loaded back, the whitelisted ones kept.
C9_Witness ==
    /\ JustReturned("load_state", "bing")
    /\ call.after_save.engine_name = "bing"
    /\ call.after_save.state = StorageState(<<DotBing, NotBing>>, <<HttpsWwwBing, HttpsEvil>>)
    /\ call.result.state = StorageState(<<DotBing>>, <<HttpsWwwBing>>)

\* A named engine yields a valid state: its entry is there and not expired,
\* and its state file holds a storage state.
YieldsValid(e) ==
    /\ state_files[e].kind = "json"
    /\ LoadMetadata(metadata_file)[e].present
    /\ LoadMetadata(metadata_file)[e].expires_kind = "iso"
    /\ now <= LoadMetadata(metadata_file)[e].expires_at

RECURSIVE MergedOfValid(_)
\* The concatenation of the cookies and origins of the valid engines among
\* engine_names, in the order of the names.
MergedOfValid(engine_names) ==
    IF engine_names = <<>> THEN EmptyState
    ELSE LET e == Head(engine_names)
             rest == MergedOfValid(Tail(engine_names))
         IN IF YieldsValid(e)
            THEN StorageState(state_files[e].state.cookies \o rest.cookies,
                              state_files[e].state.origins \o rest.origins)
            ELSE rest

\* C10: load_merged_state(engine_names) returns None iff no named engine yields
\* a valid state, and otherwise the concatenation of the cookies and origins of
\* exactly the valid engines; an invalid, expired or corrupt engine among the
\* names never makes the call fail.  (A step that sets call to a
\* load_merged_state call is that call, made in the step's first state.)
C10_MergedStateOfValidEngines ==
    [][ call'.op = "load_merged_state" =>
          /\ call'.status = "returned"
          /\ call'.result =
                IF \E k \in 1..Len(call'.engine_names) : YieldsValid(call'.engine_names[k])
                THEN Returned("state", MergedOfValid(call'.engine_names), 0)
                ELSE None ]_vars

\* The cache as it would be had only engine e ever been used: the other
\* engines have no state file, no metadata entry and a free lock.
Alone(e) ==
    World([f \in CacheEngines |-> IF f = e THEN state_files[f] ELSE NoFile],
          SaveMetadata([f \in CacheEngines |->
                           IF f = e THEN LoadMetadata(metadata_file)[f] ELSE NoMeta]),
          [f \in CacheEngines |-> IF f = e THEN locks[f] ELSE NoOwner])

\* The operation op on engine e, run on the cache of e alone.
RunAlone(op, e, state) ==
    CASE op = "save_state" -> SaveState_(Alone(e), e, state, now)
      [] op = "load_state" -> LoadState(Alone(e), e, now)
      [] OTHER -> InvalidateState(Alone(e), e)

\* C11: cache operations on different engines are independent.  Every save,
\* load or invalidate on an engine leaves the state file and the metadata entry
\* of every other engine as they were, and leaves the engine's own state file
\* and metadata entry exactly as the same operation does when no other engine
\* was ever used; so in every interleaving each engine ends as it does alone.
C11_EnginesIndependent ==
    [][ call'.op \in {"save_state", "load_state", "invalidate_state"} =>
          LET e == call'.engine_name
              alone == RunAlone(call'.op, e, call'.state)
          IN /\ \A f \in CacheEngines \ {e} :
                   /\ state_files'[f] = state_files[f]
                   /\ LoadMetadata(metadata_file')[f] = LoadMetadata(metadata_file)[f]
             /\ call'.status = alone.status
             /\ call'.result = alone.result
             /\ state_files'[e] = alone.w.state_files[e]
             /\ LoadMetadata(metadata_file')[e] = LoadMetadata(alone.w.metadata_file)[e] ]_vars

\* A save on one engine has returned while the other engine has a state file
\* and a metadata entry of its own, written at another time.
C11_Witness ==
    \E e \in CacheEngines, f \in CacheEngines :
        /\ e # f
        /\ JustReturned("save_state", e)
        /\ state_files[f].kind = "json"
        /\ LoadMetadata(metadata_file)[f].present
        /\ LoadMetadata(metadata_file)[f].created_at # call.at

(***************************************************************************)
(* Further claims about the search stage.                                  *)
(***************************************************************************)
\* The task of e waits for a semaphore permit and none is free.
AwaitsPermit(e) == pc[e] = "sem_wait" /\ sem = 0

\* The task of e is on the CAPTCHA path: it waits for or holds a CAPTCHA lock.
OnCaptchaPath(e) ==
    \/ pc[e] \in {"pause_wait", "lock_wait", "bring_to_front", "resolving", "save_state"}
    \/ captcha_pause_lock = e
    \/ captcha_lock = e

C13_OpenTabsWithinCap ==
    dispatcher = "running" => Cardinality(open_tabs) <= concurrency_tabs

(***************************************************************************)
(* Further claims about the crawl stage.                                   *)
(***************************************************************************)
\* The crawl_page_content call of hit i holds a permit of the crawl semaphore.
HoldsPermit(i) == cpc[i] \in {"new_page", "close"} \cup {TrySteps[k] : k \in 1..Len(TrySteps)}

\* C14: every page opened by a crawl_page_content call is closed before the
\* call releases its semaphore permit, on every exit path: a page is open only
\* while its call holds a permit, so the number of open crawl pages never
\* exceeds crawl_concurrency.
C14_PagesClosedBeforePermitReleased ==
    /\ \A i \in crawl_pages : HoldsPermit(i)
    /\ crawl_stage # "idle" =>
          /\ Cardinality(crawl_pages) <= crawl_concurrency
          /\ crawl_sem + Cardinality({i \in HitIds : HoldsPermit(i)}) = crawl_concurrency

\* A call has ended on an error path with its page closed, while as many
\* pages are open as the cap allows and there are more hits than permits.
C14_Witness ==
    \E i \in HitIds :
        /\ cpc[i] = "ended"
        /\ outcome[i].error # ""
        /\ i \notin crawl_pages
        /\ Cardinality(crawl_pages) = crawl_concurrency
        /\ Len(results) > crawl_concurrency

(***************************************************************************)
(* Further claims about the search stage: name resolution and the hit list. *)
(***************************************************************************)
\* The registered adapters among the requested names.
KnownRequested == chosen \cap EngineNames

\* C15: multi_search_with_context ignores requested names that are not in the
\* registry (the call runs on the registered ones among them, and no error
\* comes of the unknown ones), and when names were requested and none of them
\* is registered it raises the configuration error, with no page opened and no
\* task started.
C15_UnknownNamesIgnoredOrConfigError ==
    invocation > 0 =>
        /\ (chosen # {} /\ KnownRequested # {}) =>
              /\ dispatcher # "config_error"
              /\ engine_list = KnownRequested
        /\ (chosen # {} /\ KnownRequested = {}) =>
              /\ dispatcher = "config_error"
              /\ open_tabs = {}
              /\ \A e \in EngineNames : pc[e] = "none"
        /\ dispatcher = "config_error" => (chosen # {} /\ KnownRequested = {})

\* A call that named a registered and an unregistered engine has returned the
\* hits of the registered one.
C15_Witness ==
    /\ chosen = {"bing", "google"}
    /\ dispatcher = "returned"
    /\ engine_list = {"bing"}
    /\ deduped # <<>>

\* The concatenation of the per-engine hit lists the call gathered.
Gathered == Concat(1, chunks)

\* The positions of Gathered that hold the first occurrence of their url.
FirstOccurrences ==
    {i \in 1..Len(Gathered) : \A j \in 1..(i - 1) : Gathered[j].url # Gathered[i].url}

\* The n-th of these positions, in increasing order.
NthFirstOccurrence(n) ==
    CHOOSE i \in FirstOccurrences : Cardinality({j \in FirstOccurrences : j < i}) = n - 1

\* C16: the hit list multi_search_with_context returns holds no two hits with
\* the same raw url, and is exactly the first occurrence of each distinct url
\* of the concatenation of the per-engine hit lists, in that order.
C16_DedupedIsFirstOccurrences ==
    dispatcher = "returned" =>
        /\ \A i, j \in 1..Len(deduped) : i # j => deduped[i].url # deduped[j].url
        /\ Len(deduped) = Cardinality(FirstOccurrences)
        /\ \A n \in 1..Len(deduped) : deduped[n] = Gathered[NthFirstOccurrence(n)]

\* A call returned two hits after dropping a url that a later engine gave again.
C16_Witness ==
    /\ dispatcher = "returned"
    /\ Len(deduped) = 2
    /\ Len(Gathered) > 2
    /\ \E i \in 1..Len(Gathered) : i \notin FirstOccurrences

\* C17: each engine contributes at most top_k_each hits, so a search over E
\* selected engines returns at most E * top_k_each hits.
C17_AtMostTopKPerEngine ==
    /\ \A e \in EngineNames : Len(chunks[e]) <= top_k_each
    /\ dispatcher = "returned" =>
          Len(deduped) <= Cardinality(engine_list) * top_k_each

\* A search over several engines returned as many hits as the cap allows.
C17_Witness ==
    /\ dispatcher = "returned"
    /\ Cardinality(engine_list) >= 2
    /\ Len(deduped) = Cardinality(engine_list) * top_k_each

(***************************************************************************)
(* Claims about the aggregation, checked under SpecAggregation.            *)
(***************************************************************************)
\* What the specification calls a good PageResult.
GoodBySpec(p) ==
    /\ p.error = NoValue
    /\ p.text_len > (IF p.method = "github_issue" THEN GithubIssueTextLen
                     ELSE OtherTextLen)

\* C18: for every PageResult, is_good holds iff error is null and the text is
\* longer than 160 when method is github_issue, longer than 256 for every
\* other method; in particular is_good implies that error is null.
C18_GoodIffNoErrorAndLongText ==
    /\ \A i \in 1..Len(agg_pages) :
          (\E j \in 1..Len(good_results) : good_results[j] = agg_pages[i])
              <=> GoodBySpec(agg_pages[i])
    /\ \A j \in 1..Len(good_results) : good_results[j].error = NoValue

\* A github_issue page of 161 characters passed the filter that a page of
\* another method with as many characters did not pass.
C18_Witness ==
    /\ agg_round = "first"
    /\ Len(agg_pages) = 2
    /\ Len(good_results) = 1
    /\ good_results[1].method = "github_issue"
    /\ good_results[1].text_len = GithubIssueTextLen + 1
    /\ \E i \in 1..2 : /\ agg_pages[i].method # "github_issue"
                        /\ agg_pages[i].error = NoValue
                        /\ agg_pages[i].text_len = GithubIssueTextLen + 1

\* The key of a page: final_url, or url when final_url is absent.
KeyBySpec(p) == IF p.final_url # NoValue THEN p.final_url ELSE p.url

\* The positions of the input that hold the first good page of their key.
FirstGoodOccurrences ==
    {i \in 1..Len(agg_pages) :
        /\ GoodBySpec(agg_pages[i])
        /\ \A h \in 1..(i - 1) :
              GoodBySpec(agg_pages[h]) => KeyBySpec(agg_pages[h]) # KeyBySpec(agg_pages[i])}

\* The n-th of these positions, in increasing order.
NthFirstGoodOccurrence(n) ==
    CHOOSE i \in FirstGoodOccurrences :
        Cardinality({h \in FirstGoodOccurrences : h < i}) = n - 1

\* C19: the aggregator's output holds only good PageResults, holds no two
\* entries with the same key (final_url, or url when final_url is absent), and
\* is exactly the first good occurrence of each key, in input order.
C19_OutputIsFirstGoodOfEachKey ==
    agg_round # "none" =>
        /\ \A j \in 1..Len(agg_deduped) : GoodBySpec(agg_deduped[j])
        /\ \A j, k \in 1..Len(agg_deduped) :
              j # k => KeyBySpec(agg_deduped[j]) # KeyBySpec(agg_deduped[k])
        /\ Len(agg_deduped) = Cardinality(FirstGoodOccurrences)
        /\ \A n \in 1..Len(agg_deduped) :
              agg_deduped[n] = agg_pages[NthFirstGoodOccurrence(n)]

\* Two good pages with different url and the same final_url were aggregated:
\* the output is the first of them.
C19_Witness ==
    /\ agg_round = "first"
    /\ Len(agg_pages) = 2
    /\ agg_pages[1].url # agg_pages[2].url
    /\ GoodBySpec(agg_pages[1]) /\ GoodBySpec(agg_pages[2])
    /\ KeyBySpec(agg_pages[1]) = KeyBySpec(agg_pages[2])
    /\ agg_deduped = <<agg_pages[1]>>

\* C20: aggregation is idempotent: run on its own output, it returns that
\* output unchanged, whatever the list of PageResults it started from.
C20_AggregationIdempotent ==
    agg_round = "again" => agg_deduped = agg_pages

\* An aggregation was run on an earlier output of two pages.
C20_Witness ==
    /\ agg_round = "again"
    /\ Len(agg_pages) = 2
    /\ Len(agg_deduped) = 2

(***************************************************************************)
(* Claims about a call of the tool, checked under SpecWebSearch.           *)
(***************************************************************************)
\* A crawl_page_content task exists and has not ended.
CrawlTaskRuns == \E i \in HitIds : cpc[i] \notin {"none", "ended"}

\* A fetch_engine task exists and has not ended.
SearchTaskRuns == \E e \in EngineNames : pc[e] \notin Terminal \cup {"none"}

\* C21: within one invocation no crawl page is opened before every search
\* task has finished and the full deduplicated hit list exists; tasks of the
\* search stage and of the crawl stage never run at the same time.
C21_CrawlOnlyAfterSearch ==
    /\ (crawl_stage # "idle" \/ crawl_pages # {} \/ CrawlTaskRuns) =>
          /\ dispatcher = "returned"
          /\ \A e \in engine_list : pc[e] = "done"
          /\ deduped = DedupeFrom(Concat(1, chunks), {})
          /\ results = UrlsOf(deduped)
    /\ ~(SearchTaskRuns /\ CrawlTaskRuns)

\* Two crawl pages are open for the two hits that two engines returned.
C21_Witness ==
    /\ Cardinality(crawl_pages) = 2
    /\ Len(deduped) = 2
    /\ \A e \in ALL_ENGINES : chunks[e] # <<>>

(***************************************************************************)
(* Claims about the CAPTCHA handling, checked under SpecSearch.            *)
(***************************************************************************)
\* The task of e has left its resolution wait and has not returned yet.
PastWait(e) == pc[e] \in {"save_state", "lock_exit", "extract"} /\ resolution[e] # "none"

\* C22: a task persists its engine's session state during CAPTCHA handling
\* iff its resolution wait ended successfully and a state manager was
\* supplied; the save happens before the task releases captcha_pause_lock, and
\* a wait that ends in timeout persists nothing.
C22_PersistsIffResolved ==
    \A e \in EngineNames :
        /\ (PastWait(e) /\ captcha_pause_lock # e) =>
              (e \in saved <=> (resolution[e] = "resolved" /\ state_manager))
        /\ resolution[e] = "timeout" => e \notin saved

\* C22 as amended: the save is attempted iff the wait ended successfully and a
\* state manager was supplied, and it is attempted while captcha_pause_lock is
\* still held; the state is persisted only by an attempt that succeeds, and
\* after a timeout, or without a state manager, nothing is persisted.
C22_SaveAttemptedIffResolved ==
    \A e \in EngineNames :
        /\ pc[e] = "save_state" =>
              resolution[e] = "resolved" /\ state_manager /\ captcha_pause_lock = e
        /\ (PastWait(e) /\ resolution[e] = "resolved" /\ state_manager
              /\ captcha_pause_lock = e) => pc[e] = "save_state"
        /\ (PastWait(e) /\ e \in saved) => resolution[e] = "resolved"
        /\ e \in saved => state_manager /\ pc[e] \in {"lock_exit", "extract", "done"}
        /\ resolution[e] = "timeout" => e \notin saved

\* A task saved its engine's state after a resolved challenge and has just
\* released captcha_pause_lock, and another task's challenge timed out.
C22_Witness ==
    \E e, other \in EngineNames :
        /\ pc[e] = "lock_exit" /\ resolution[e] = "resolved" /\ e \in saved
        /\ other \in engine_list \ saved
        /\ pc[other] = "done"

\* C23: when a task's resolution wait times out the task does not fail: it
\* releases the CAPTCHA locks and continues to result extraction, from where it
\* returns its hit list; so no raise of the dispatcher comes of a timeout, and
\* the dispatcher returns the hits of the engines when every task has returned.
C23_TimeoutIsNotFatal ==
    /\ \A e \in EngineNames :
          resolution[e] = "timeout" =>
              /\ pc[e] \in {"lock_exit", "extract"}
              /\ captcha_pause_lock # e
              /\ pc[e] = "extract" => captcha_lock # e
    /\ dispatcher = "raised" =>
          \E e \in EngineNames : pc[e] = "failed" /\ resolution[e] = "none"
    /\ dispatcher = "returned" =>
          /\ \A e \in engine_list : pc[e] = "done"
          /\ deduped = DedupeFrom(Concat(1, chunks), {})

\* A task whose wait timed out is at result extraction, holding no lock, while
\* another engine's task has returned hits and the call is still running.
C23_Witness ==
    \E e, other \in EngineNames :
        /\ resolution[e] = "timeout"
        /\ pc[e] = "extract"
        /\ captcha_pause_lock = NoOwner /\ captcha_lock = NoOwner
        /\ pc[other] = "done" /\ chunks[other] # <<>>
        /\ dispatcher = "running"

(***************************************************************************)
(* Claims about scoring and ranking, checked under SpecScoring.            *)
(***************************************************************************)
\* C24: for every text, one more occurrence of a noise keyword, with length,
\* paragraph count, line count and short-line count held equal, lowers the raw
\* score by exactly 12.
C24_NoiseCostsTwelve ==
    edit = "noise" => score = before.score - 12 * ScoreScale

\* C24 as amended: one more occurrence of a noise keyword, the other counts
\* held equal, lowers a raw score of 12 or more by exactly 12 and brings a raw
\* score below 12 to 0: the score is never negative, and it is 0 for a text
\* shorter than 120 characters whatever its noise.
C24_NoiseCostsTwelveDownToZero ==
    edit = "noise" =>
        IF before.score >= 12 * ScoreScale
        THEN score = before.score - 12 * ScoreScale
        ELSE score = 0

\* A text that scored 12 or more was scored again with one more noise keyword.
C24_Witness ==
    /\ edit = "noise"
    /\ text.noise = before.text.noise + 1
    /\ before.score > 12 * ScoreScale
    /\ score = before.score - 12 * ScoreScale

\* C25: the raw score is monotonic non-decreasing in the length of the text,
\* the other counts held equal, over all lengths from 0 up to the clamp of
\* 12000 characters, the floor of 120 characters below which it is 0 included,
\* and it is constant in length above the clamp.
C25_ScoreMonotonicInLength ==
    edit = "longer" =>
        /\ score >= before.score
        /\ before.text.length >= LengthClamp => score = before.score

\* A text below the floor of 120 characters was made longer than the floor and
\* now scores more than 0.
C25_Witness ==
    /\ edit = "longer"
    /\ before.text.length < MinScoredLength
    /\ before.text.length > 0
    /\ text.length >= MinScoredLength
    /\ score > before.score

\* The trust weights of the methods, in hundredths.
TrustWeight(m) ==
    CASE m = "github_issue" -> 155
      [] m = "selectors" -> 120
      [] m = "main_block" -> 110
      [] m = "readability" -> 100
      [] m = "body" -> 90

\* C26: of two candidates with equal raw score the one whose method has the
\* higher trust weight is ranked first after weighting; so a github_issue
\* candidate is ranked before a body candidate of equal raw score.
C26_HigherWeightRanksFirst ==
    \A i, j \in 1..Len(scored) :
        (/\ _score_text(scored[i].text) = _score_text(scored[j].text)
         /\ TrustWeight(scored[i].method) > TrustWeight(scored[j].method)) => i < j

\* Four candidates were ranked: github_issue is first, before a candidate of
\* equal raw score, and a candidate of a lower weight and a higher raw score is
\* ranked before one of a higher weight.
C26_Witness ==
    /\ Len(scored) = 4
    /\ scored[1].method = "github_issue"
    /\ \E j \in 2..4 : /\ _score_text(scored[j].text) = _score_text(scored[1].text)
                        /\ scored[j].score < scored[1].score
    /\ \E i, j \in 2..4 : /\ i < j
                           /\ TrustWeight(scored[i].method) < TrustWeight(scored[j].method)

(***************************************************************************)
(* Claims about the CAPTCHA probe and wait, checked under SpecCaptchaWait. *)
(***************************************************************************)
\* The probes that match on a page, a probe that fails counting as no match.
UrlMatches(view) == view.url = "https://www.bing.com/challenge?id=1"
DomMatches(view) == view.dom \in {"captcha", "header_unreadable", "widget"}
TextMatches(view) ==
    view.body_text \in {"Please verify you are human", "Just a moment..."}

\* C27: is_captcha_page never raises and returns true iff at least one probe
\* matches, the probes being tried in the order url tokens, DOM challenge
\* elements, page-text keywords and a failing probe counting as no match; a
\* page whose text holds "Please verify you are human", at a url without token
\* and without challenge elements, is classified as a CAPTCHA page.
C27_ProbeNeverRaisesAndMatches ==
    wait_pc \notin {"idle", "check", "probe"} \/ probed # NotProbed =>
        LET view == probed.view
            ended == probed.ended
        IN /\ ~ended.raised
           /\ wait_pc # "raised"
           /\ ended.value <=> (UrlMatches(view) \/ DomMatches(view) \/ TextMatches(view))
           /\ ended.tried = IF UrlMatches(view) THEN <<"url">>
                            ELSE IF DomMatches(view) THEN <<"url", "dom">>
                            ELSE <<"url", "dom", "text">>
           /\ (view.body_text = "Please verify you are human") => ended.value

\* The text probe alone classified a page as a CAPTCHA page, after the read of
\* the html and the DOM probe had both failed.
C27_Witness ==
    /\ wait_pc = "sleep"
    /\ probed.view.body_text = "Please verify you are human"
    /\ ~UrlMatches(probed.view)
    /\ probed.view.dom = "raises"
    /\ probed.view.html = "raises"
    /\ probed.ended.value
    /\ probed.ended.tried = <<"url", "dom", "text">>

(***************************************************************************)
(* Claims about the two CAPTCHA locks, checked under SpecSearch.           *)
(***************************************************************************)
\* C28: on leaving the CAPTCHA handling a task releases captcha_lock first and
\* captcha_pause_lock second: a task that holds captcha_lock, which it took
\* after captcha_pause_lock, still holds captcha_pause_lock.
C28_PauseLockReleasedLast ==
    \A e \in EngineNames : captcha_lock = e => captcha_pause_lock = e

\* C29: every search task that detects a challenge eventually acquires
\* captcha_pause_lock and finishes, and every search invocation eventually
\* returns or raises, also when it follows an invocation in which a task failed
\* during the CAPTCHA handling.
C29_ChallengedTasksFinish ==
    /\ \A e \in EngineNames : (pc[e] = "pause_wait") ~> (pc[e] \in Terminal)
    /\ (dispatcher = "running") ~> (dispatcher \in {"returned", "raised"})

\* C30: a CAPTCHA resolution wait lasts at most 120 s: it ends, by returning
\* after a probe reported no challenge or by raising the timeout, no later than
\* 120 s after it began, and it never returns while the latest probe reported
\* a challenge.
C30_WaitEndsWithinTimeout ==
    /\ wait_pc \in {"returned", "timeout"} => elapsed <= timeout_ms
    /\ wait_pc = "returned" => ~probed.ended.value

(***************************************************************************)
(* Claims about the selection among candidates, checked under SpecScoring. *)
(***************************************************************************)
\* C31: in every successful PageResult the method and score are those of the
\* candidate with the maximal weighted score among all candidates produced for
\* the page, candidates lists every produced candidate in non-increasing
\* weighted-score order, and its first entry is the winner.
C31_WinnerHasMaximalScore ==
    (page_result # NoPageResult /\ page_result.error = "") =>
        LET listed == page_result.candidates
            weighted(c) == _score_text(c.text) * METHOD_PRIOR(c.method)
        IN /\ \E i \in 1..Len(candidates) :
                 /\ candidates[i].method = page_result.method
                 /\ weighted(candidates[i]) = page_result.score
           /\ \A i \in 1..Len(candidates) : weighted(candidates[i]) <= page_result.score
           /\ Len(listed) = Len(candidates)
           /\ \A i \in 1..Len(candidates) :
                 \E j \in 1..Len(listed) :
                    /\ listed[j].method = candidates[i].method
                    /\ listed[j].score = weighted(candidates[i])
                    /\ listed[j].len = candidates[i].text.length
           /\ \A j \in 1..(Len(listed) - 1) : listed[j].score >= listed[j + 1].score
           /\ listed[1].method = page_result.method
           /\ listed[1].score = page_result.score

\* A success among four candidates in which the winner is not the candidate
\* appended first.
C31_Witness ==
    /\ page_result.error = ""
    /\ Len(page_result.candidates) = 4
    /\ page_result.method = "main_block"
    /\ page_result.candidates[4].score < page_result.score

\* C33: the body fallback is attempted only when no other strategy produced a
\* candidate, and when it too yields empty text the page's result is an
\* error-tagged PageResult, not a success with empty text.
C33_BodyOnlyAsLastResort ==
    /\ fallback = "tried" => \A i \in 1..Len(candidates) : candidates[i].method = "body"
    /\ (fallback # "unset" /\ \E i \in 1..Len(candidates) : candidates[i].method # "body")
          => fallback = "skipped"
    /\ (fallback = "tried" /\ candidates = <<>>) =>
          /\ page_result.error # ""
          /\ page_result.method = ""
          /\ page_result.candidates = <<>>
    /\ (page_result # NoPageResult /\ page_result.error = "") => page_result.text # NoText

\* No strategy gave a text and the body was empty too: an error result.
C33_Witness ==
    /\ fallback = "tried"
    /\ candidates = <<>>
    /\ page_result.error # ""

(***************************************************************************)
(* Claims about the main-block strategy, checked under SpecMainBlock.      *)
(***************************************************************************)
\* The elements that the claim ranks: length 180 or more and link density at
\* most 0.45.
Eligible(x) == LongEnough(x) /\ LowDensity(x)

\* C32: the main-block strategy returns the best-scoring element (text-quality
\* score minus 80 times the link density) among the top 25 by
\* length / (1 + 2 * link density) of the elements that have length 180 or
\* more and link density 0.45 or less: elements of high link density are
\* discarded before the ranking and the cut, and never displace an eligible one.
C32_DenseBlocksDiscardedBeforeCut ==
    main_block.ran =>
        main_block.text =
            BestBlock(Top(SortByRank(SelectSeq(main_block.els, Eligible), <<>>)), NoText, 0)

(***************************************************************************)
(* Claims about the dispatcher's argument and order, under SpecDispatch.   *)
(***************************************************************************)
\* The chunks of the selected engines one after the other in the order of the
\* registry: bing, duckduckgo, baidu.
ChunksByRegistry ==
    (IF "bing" \in engine_list THEN chunks["bing"] ELSE <<>>)
    \o (IF "duckduckgo" \in engine_list THEN chunks["duckduckgo"] ELSE <<>>)
    \o (IF "baidu" \in engine_list THEN chunks["baidu"] ELSE <<>>)

\* C34: the per-engine hit lists are concatenated in the order of the adapter
\* registry, whatever the order in which the names were requested and the
\* order in which the tasks ended: the output is the first occurrences of
\* the urls of that concatenation, a function of the per-engine results.
C34_ConcatenatedInRegistryOrder ==
    dispatcher = "returned" => deduped = DedupeFrom(ChunksByRegistry, {})

\* baidu was requested before bing and its task ended before bing's, both
\* brought hits, and the output starts with bing's.
C34_Witness ==
    /\ dispatcher = "returned"
    /\ engines = Given(<<"baidu", "Bing">>)
    /\ arrived = <<"baidu", "bing">>
    /\ chunks["bing"] # <<>>
    /\ chunks["baidu"] # <<>>
    /\ deduped[1].engine = "bing"
    /\ deduped[1].url # chunks["baidu"][1].url

\* C35: a search called with an empty or absent engine-name list selects every
\* registered adapter and raises no configuration error; the configuration
\* error arises only for a non-empty list none of whose names is registered.
C35_EmptyRequestSelectsAll ==
    invocation > 0 =>
        LET names == {engines.names[i] : i \in 1..Len(engines.names)}
        IN /\ (engines.absent \/ engines.names = <<>>) =>
                 /\ engine_list = EngineNames
                 /\ dispatcher # "config_error"
           /\ dispatcher = "config_error" =>
                 /\ ~engines.absent
                 /\ engines.names # <<>>
                 /\ names \cap EngineNames = {}
           /\ (names # {} /\ {LowerName(n) : n \in names} \cap EngineNames = {}) =>
                 dispatcher = "config_error"

\* A call with the empty list has run all three adapters and returned.
C35_Witness ==
    /\ engines = Given(<<>>)
    /\ dispatcher = "returned"
    /\ engine_list = EngineNames
    /\ Len(arrived) = 3

(***************************************************************************)
(* Further claims about the state cache, checked under SpecCacheCleanup.   *)
(***************************************************************************)
\* The entry of engine e as _load_metadata gives it, before and after a step.
EntryOf(e) == LoadMetadata(metadata_file)[e]
EntryAfter(e) == LoadMetadata(metadata_file')[e]

\* C36: a load never extends an entry's lifetime: a successful load changes
\* only the engine's last_used and leaves created_at, expires_at and the state
\* file as they were; in a call of the manager the expires_at of an engine
\* changes only through a save on it, which sets it to now + ttl_seconds, or
\* through the removal of the entry.
C36_LoadNeverExtendsLifetime ==
    [][ /\ (call'.op = "load_state" /\ call'.status = "returned"
                /\ call'.result.kind = "state") =>
              LET e == call'.engine_name
              IN /\ EntryAfter(e) = [EntryOf(e) EXCEPT !.last_used = now]
                 /\ state_files'[e] = state_files[e]
        /\ call'.op # "none" =>
              \A e \in CacheEngines :
                 \/ /\ EntryAfter(e).expires_at = EntryOf(e).expires_at
                    /\ EntryAfter(e).expires_kind = EntryOf(e).expires_kind
                    /\ EntryAfter(e).present = EntryOf(e).present
                 \/ /\ call'.op = "save_state" /\ call'.engine_name = e
                    /\ EntryAfter(e).expires_kind = "iso"
                    /\ EntryAfter(e).expires_at = now + ttl_seconds
                 \/ EntryAfter(e) = NoMeta ]_vars

\* A load returned the state of an entry saved at an earlier time.
C36_Witness ==
    \E e \in CacheEngines :
        /\ call.op = "load_state" /\ call.engine_name = e
        /\ call.status = "returned" /\ call.result.kind = "state"
        /\ LoadMetadata(metadata_file)[e].created_at < now
        /\ LoadMetadata(metadata_file)[e].last_used = now
        /\ LoadMetadata(metadata_file)[e].expires_at = now

\* C37: a save, load or invalidate on an engine leaves the state file and the
\* metadata entry of every other engine unchanged, in every reachable state of
\* the cache, also where the engine's own file or entry is missing and whether
\* the call returns, raises or blocks.
C37_OtherEnginesUntouched ==
    [][ call'.op \in {"save_state", "load_state", "invalidate_state"} =>
          \A f \in CacheEngines \ {call'.engine_name} :
             /\ state_files'[f] = state_files[f]
             /\ EntryAfter(f) = EntryOf(f)
             /\ metadata_file.kind = "json" =>
                   /\ metadata_file'.kind = "json"
                   /\ metadata_file'.entries[f] = metadata_file.entries[f] ]_vars

\* A load on an engine whose entry was there and whose file was missing has
\* returned, and the other engine still has its file and its entry.
C37_Witness ==
    \E e \in CacheEngines, f \in CacheEngines :
        /\ e # f
        /\ call.op = "load_state" /\ call.engine_name = e /\ call.status = "returned"
        /\ call.found.file = "absent"
        /\ call.found.meta.present
        /\ state_files[f].kind = "json"
        /\ LoadMetadata(metadata_file)[f].present

\* An entry that is there and is not valid: its expires_at is missing, is no
\* date, or is not after the time t.
ExpiredEntry(engine_meta, t) ==
    /\ engine_meta.present
    /\ ~(engine_meta.expires_kind = "iso" /\ t < engine_meta.expires_at)

\* An entry whose expires_at is the time t itself.
AtExpiry(engine_meta, t) ==
    /\ engine_meta.present
    /\ engine_meta.expires_kind = "iso"
    /\ engine_meta.expires_at = t

\* C38: cleanup_expired_states returns exactly the number of metadata entries
\* that were expired when it was called; afterwards none of those engines has
\* a state file or a metadata entry, and the file and the entry of every
\* engine that was not expired are unchanged.  Calls made at the very instant
\* at which an entry expires are left aside.
C38_CleanupRemovesExactlyExpired ==
    [][ (call'.op = "cleanup_expired_states"
            /\ \A e \in CacheEngines : ~AtExpiry(EntryOf(e), now)) =>
          /\ call'.status = "returned"
          /\ call'.result.kind = "count"
          /\ call'.result.value =
                Cardinality({e \in CacheEngines : ExpiredEntry(EntryOf(e), now)})
          /\ \A e \in CacheEngines :
                IF ExpiredEntry(EntryOf(e), now)
                THEN /\ state_files'[e] = NoFile
                     /\ EntryAfter(e) = NoMeta
                ELSE /\ state_files'[e] = state_files[e]
                     /\ EntryAfter(e) = EntryOf(e) ]_vars

====
